---------------------------- MODULE Spec2Model ----------------------------
(***************************************************************************)
(* A model of the fragment-editor API: request validation                  *)
(* (app/utils/request_validator.py), percentage planning                   *)
(* (app/utils/text_transform.py, app/utils/response_formatter.py,          *)
(* app/utils/completion_helpers.py, app/controllers/compress.py), the      *)
(* reconciliation of the completion against the plan                       *)
(* (TransformationRequest.parse_ai_response and                            *)
(* ResponseFormatter.format_response) and the controllers that chain them  *)
(* (specification Spec); the retry loop of create_base_completion          *)
(* (app/utils/completion_helpers.py, specification BaseCompletionSpec);    *)
(* the require_api_key decorator (app/middleware/auth.py, specification    *)
(* AuthSpec); the calls of the two calculate_percentages functions by the  *)
(* expand and compress controllers (specification PlanningSpec); the       *)
(* processed-parameter tracking of the request model                       *)
(* (app/models/requests, specification TrackingSpec); and chunk_text       *)
(* (app/utils/text_processing.py, specification ChunkSpec).                *)
(*                                                                         *)
(* Python values are represented as follows.                               *)
(*   - an optional value (a dict key that may be absent) is a sequence of  *)
(*     length 0 (absent) or 1 (present): None == <<>>, Some(v) == <<v>>;   *)
(*   - a text is the sequence of its tokens, so count_tokens is Len;       *)
(*   - a percentage with one decimal (final_percentage) is an integer      *)
(*     number of tenths of a percent.                                      *)
(***************************************************************************)
EXTENDS Integers, Sequences, FiniteSets, TLC

VARIABLES
    endpoint,       \* the controller that handles the request
    operation,      \* "expand", "compress" or "rephrase"
    content,        \* [is_fragments, texts]: a single text or a list of fragments
    params,         \* the request's parameter mapping
    pc,             \* the handler's position
    error,          \* the Validator's error code, None when it accepted
    warnings,       \* the Validator's warnings
    transform,      \* the TransformationRequest: is_expansion and its plan
    gatewayCalls,   \* how often the Completion Gateway was called
    response,       \* the completion, as parsed JSON
    result,         \* what the handler answers
    baseCompletion, \* a call of create_base_completion: its arguments, the
                    \* gateway's behaviour and the loop's local state
    auth,           \* a request at require_api_key: its Authorization header,
                    \* the configured API keys and what the decorator did
    planning,       \* a call of calculate_percentages: its caller, its
                    \* arguments and how it ended
    tracking,       \* a TransformationRequest of app/models/requests: content,
                    \* params and _processed_params
    chunking        \* a call of chunk_text: its arguments and its locals

\* the variables of a request to an endpoint
requestVars == <<endpoint, operation, content, params, pc, error, warnings,
                 transform, gatewayCalls, response, result>>

vars == <<requestVars, baseCompletion, auth, planning, tracking, chunking>>

\* what a request to an endpoint, a call of create_base_completion, a pass
\* through require_api_key, a call of calculate_percentages, a call on the
\* request model and a call of chunk_text leave alone
besidesRequest == <<baseCompletion, auth, planning, tracking, chunking>>

besidesBaseCompletion == <<requestVars, auth, planning, tracking, chunking>>

besidesAuth == <<requestVars, baseCompletion, planning, tracking, chunking>>

besidesPlanning == <<requestVars, baseCompletion, auth, tracking, chunking>>

besidesTracking == <<requestVars, baseCompletion, auth, planning, chunking>>

besidesChunking == <<requestVars, baseCompletion, auth, planning, tracking>>

-----------------------------------------------------------------------------
(* Optional values and Python helpers *)

None == <<>>

Some(v) == <<v>>

Min(a, b) == IF a <= b THEN a ELSE b

Max(a, b) == IF a >= b THEN a ELSE b

Abs(a) == IF a >= 0 THEN a ELSE -a

\* key in params
Has(p, k) == p[k] # None

\* params.get(k, default)
Get(p, k, default) == IF p[k] # None THEN p[k][1] ELSE default

\* Python truthiness of params.get(k) for a number: present and not 0
TruthyInt(p, k) == p[k] # None /\ p[k][1] # 0

\* Python truthiness of params.get(k) for a list: present and not empty
TruthyList(p, k) == p[k] # None /\ p[k][1] # <<>>

\* list(range(start, stop, step)) for step # 0
PyRange(start, stop, step) ==
    LET n == IF step > 0
             THEN (IF stop > start THEN (stop - start + step - 1) \div step ELSE 0)
             ELSE (IF start > stop THEN (start - stop - step - 1) \div (-step) ELSE 0)
    IN [i \in 1..n |-> start + (i - 1) * step]

\* round(num / den) for den > 0: Python rounds halves to even
PyRound(num, den) ==
    LET a == Abs(num)
        q == a \div den
        r == a % den
        m == IF 2 * r < den THEN q
             ELSE IF 2 * r > den THEN q + 1
             ELSE IF q % 2 = 0 THEN q ELSE q + 1
    IN IF num < 0 THEN -m ELSE m

\* [x for x in s if x != v]
RECURSIVE Without(_, _)
Without(s, v) ==
    IF s = <<>> THEN <<>>
    ELSE IF s[1] = v THEN Without(Tail(s), v)
    ELSE <<s[1]>> \o Without(Tail(s), v)

SeqMax(s) == CHOOSE m \in {s[i] : i \in DOMAIN s} : \A i \in DOMAIN s : s[i] <= m

-----------------------------------------------------------------------------
(* app/config/text_transform.py *)

DEFAULT_PERCENTAGE == 100

MIN_LENGTH_EXPANSION == 110

MAX_LENGTH_EXPANSION == 300

DEFAULT_LENGTH_EXPANSION == 150

MAX_LENGTH_COMPRESSION == 90

DEFAULT_LENGTH_COMPRESSION == 50

MIN_LENGTH_COMPRESSION == 10

MIN_STEP_SIZE == 10

MAX_STEP_SIZE == 50

MAX_VERSIONS == 5

DEFAULT_VERSIONS == 1

VALID_STYLES == {"elaborate", "explain", "example", "detail"}

-----------------------------------------------------------------------------
(* RequestValidator, app/utils/request_validator.py *)

\* _is_expansion
IsExpansion(p) ==
    IF ~TruthyInt(p, "target_percentage")
    THEN (IF TruthyList(p, "target_percentages")
          THEN \E i \in DOMAIN p.target_percentages[1] : p.target_percentages[1][i] > 100
          ELSE FALSE)
    ELSE p.target_percentage[1] > 100

\* _validate_basic_params: the error code, or None
ValidateBasicParams(p) ==
    IF Has(p, "target_percentage") /\ Has(p, "target_percentages")
    THEN Some("invalid_params")
    ELSE IF Has(p, "versions") /\ (p.versions[1] < 1 \/ p.versions[1] > MAX_VERSIONS)
    THEN Some("invalid_versions")
    ELSE None

\* _validate_style_params (style; tone and aspects are checked the same way)
ValidateStyleParams(p) ==
    IF Has(p, "style") /\ p.style[1] \notin VALID_STYLES
    THEN Some("invalid_style")
    ELSE None

\* _validate_length_params, the step checks
ValidateStep(p) ==
    IF Has(p, "steps_percentage") /\ p.steps_percentage[1] < MIN_STEP_SIZE
    THEN Some("invalid_step")
    ELSE IF Has(p, "steps_percentage") /\ p.steps_percentage[1] > MAX_STEP_SIZE
    THEN Some("invalid_step")
    ELSE None

\* _validate_length_params, the expansion branch
ValidateExpansion(p) ==
    LET target == Get(p, "target_percentage", 0)
        start == Get(p, "start_percentage", 0)
        hasTarget == TruthyInt(p, "target_percentage")
    IN IF hasTarget /\ target <= DEFAULT_PERCENTAGE THEN Some("invalid_expansion")
       ELSE IF hasTarget /\ target > MAX_LENGTH_EXPANSION THEN Some("invalid_expansion")
       ELSE IF hasTarget /\ target < MIN_LENGTH_EXPANSION THEN Some("invalid_expansion")
       ELSE IF TruthyInt(p, "start_percentage") /\ hasTarget /\ start >= target
       THEN Some("invalid_range")
       ELSE None

\* ValidateCompression with the upper bounds of the expansion branch pasted in:
\* "target > DEFAULT_PERCENTAGE" and MAX_LENGTH_EXPANSION
ValidateCompressionPasted(p) ==
    LET target == Get(p, "target_percentage", 0)
        start == Get(p, "start_percentage", 0)
        hasTarget == TruthyInt(p, "target_percentage")
    IN IF hasTarget /\ target > DEFAULT_PERCENTAGE THEN Some("invalid_compression")
       ELSE IF hasTarget /\ target > MAX_LENGTH_EXPANSION THEN Some("invalid_compression")
       ELSE IF hasTarget /\ target < MIN_LENGTH_COMPRESSION THEN Some("invalid_compression")
       ELSE IF TruthyInt(p, "start_percentage") /\ hasTarget /\ start <= target
       THEN Some("invalid_range")
       ELSE None

\* _validate_length_params, the compression branch
ValidateCompression(p) ==
    LET target == Get(p, "target_percentage", 0)
        start == Get(p, "start_percentage", 0)
        hasTarget == TruthyInt(p, "target_percentage")
    IN IF hasTarget /\ target >= DEFAULT_PERCENTAGE THEN Some("invalid_compression")
       ELSE IF hasTarget /\ target > MAX_LENGTH_COMPRESSION THEN Some("invalid_compression")
       ELSE IF hasTarget /\ target < MIN_LENGTH_COMPRESSION THEN Some("invalid_compression")
       ELSE IF TruthyInt(p, "start_percentage") /\ hasTarget /\ start <= target
       THEN Some("invalid_range")
       ELSE None

\* _validate_length_params
ValidateLengthParams(p, is_expansion) ==
    IF ValidateStep(p) # None THEN ValidateStep(p)
    ELSE IF is_expansion THEN ValidateExpansion(p)
    ELSE ValidateCompression(p)

\* the warnings of validate_request: one per unknown parameter name
ValidationWarnings(p) ==
    [i \in DOMAIN p.unknown |-> [code |-> "validation_warning", key |-> <<p.unknown[i]>>]]

\* ValidateRequest refusing a request that carries an unknown parameter
ValidateRequestStrict(p) ==
    IF p.unknown # <<>> THEN Some("invalid_params")
    ELSE IF ValidateBasicParams(p) # None THEN ValidateBasicParams(p)
    ELSE IF ValidateStyleParams(p) # None THEN ValidateStyleParams(p)
    ELSE ValidateLengthParams(p, IsExpansion(p))

\* validate_request: the error code, or None (fragment_style is not modelled)
ValidateRequest(p) ==
    IF ValidateBasicParams(p) # None THEN ValidateBasicParams(p)
    ELSE IF ValidateStyleParams(p) # None THEN ValidateStyleParams(p)
    ELSE ValidateLengthParams(p, IsExpansion(p))

-----------------------------------------------------------------------------
(* TransformationRequest, app/utils/text_transform.py: the Planner *)

\* _should_expand
ShouldExpand(p, op) ==
    IF ~TruthyInt(p, "target_percentage")
    THEN (IF TruthyList(p, "target_percentages")
          THEN SeqMax(p.target_percentages[1]) > 100
          ELSE op = "expand")
    ELSE p.target_percentage[1] > 100

LengthTarget(pct, n) == [target_percentage |-> pct, versions_per_length |-> n]

\* _calculate_target_percentages, the explicit list: one length per listed value
ExplicitListPlan(p) ==
    [i \in DOMAIN p.target_percentages[1] |->
        LengthTarget(p.target_percentages[1][i], 1)]

\* StepRangePlan with the range stopping at the target itself
\* (range(start, target, step)): the last stop is lost
StepRangePlanExclusive(p, is_expansion) ==
    LET step == Max(p.steps_percentage[1], MIN_STEP_SIZE)
        target == p.target_percentage[1]
        versions_per_length == Min(Get(p, "versions", DEFAULT_VERSIONS), MAX_VERSIONS)
        start == IF is_expansion
                 THEN Get(p, "start_percentage", Min(DEFAULT_PERCENTAGE + step, target))
                 ELSE Get(p, "start_percentage", Max(DEFAULT_PERCENTAGE - step, target))
        stops == IF is_expansion
                 THEN PyRange(start, target, step)
                 ELSE PyRange(start, target, -step)
    IN [i \in DOMAIN stops |-> LengthTarget(stops[i], versions_per_length)]

\* _calculate_target_percentages, the step-driven range (target_percentage present)
StepRangePlan(p, is_expansion) ==
    LET step == Max(p.steps_percentage[1], MIN_STEP_SIZE)
        target == p.target_percentage[1]
        versions_per_length == Min(Get(p, "versions", DEFAULT_VERSIONS), MAX_VERSIONS)
        start == IF is_expansion
                 THEN Get(p, "start_percentage", Min(DEFAULT_PERCENTAGE + step, target))
                 ELSE Get(p, "start_percentage", Max(DEFAULT_PERCENTAGE - step, target))
        stops == IF is_expansion
                 THEN PyRange(start, target + step, step)
                 ELSE PyRange(start, target - step, -step)
    IN [i \in DOMAIN stops |-> LengthTarget(stops[i], versions_per_length)]

\* SingleTargetPlan that forgets the requested versions
SingleTargetPlanOneVersion(p, is_expansion) ==
    LET target == Get(p, "target_percentage",
                      IF is_expansion THEN DEFAULT_LENGTH_EXPANSION
                      ELSE DEFAULT_LENGTH_COMPRESSION)
    IN <<LengthTarget(target, DEFAULT_VERSIONS)>>

\* _calculate_target_percentages, the single target
SingleTargetPlan(p, is_expansion) ==
    LET target == Get(p, "target_percentage",
                      IF is_expansion THEN DEFAULT_LENGTH_EXPANSION
                      ELSE DEFAULT_LENGTH_COMPRESSION)
        versions == Min(Get(p, "versions", DEFAULT_VERSIONS), MAX_VERSIONS)
    IN <<LengthTarget(target, versions)>>

\* _calculate_target_percentages: raised is the KeyError of
\* self.params['target_percentage'] when steps_percentage comes without a target
CalculateTargetPercentages(p, is_expansion) ==
    IF Has(p, "target_percentages")
    THEN [raised |-> FALSE, plan |-> ExplicitListPlan(p)]
    ELSE IF Has(p, "steps_percentage")
    THEN (IF Has(p, "target_percentage")
          THEN [raised |-> FALSE, plan |-> StepRangePlan(p, is_expansion)]
          ELSE [raised |-> TRUE, plan |-> <<>>])
    ELSE [raised |-> FALSE, plan |-> SingleTargetPlan(p, is_expansion)]

\* _validate_percentages: TRUE when the plan is refused
ValidatePercentages(plan) ==
    \/ plan = <<>>
    \/ \E i \in DOMAIN plan :
          ~(1 <= plan[i].versions_per_length /\ plan[i].versions_per_length <= MAX_VERSIONS)

\* _init_rephrase
InitRephrase(p) == <<LengthTarget(100, Get(p, "versions", DEFAULT_VERSIONS))>>

\* the percentages of a plan, in order
Percentages(plan) == [i \in DOMAIN plan |-> plan[i].target_percentage]

-----------------------------------------------------------------------------
(* ResponseFormatter._get_target_percentages, app/utils/response_formatter.py *)

\* raised is the KeyError of params["target_percentage"]
GetTargetPercentages(p, op) ==
    LET is_expansion == op = "expand"
    IN IF Has(p, "target_percentages")
       THEN [raised |-> FALSE, percentages |-> Without(p.target_percentages[1], 100)]
       ELSE IF Has(p, "steps_percentage")
       THEN (IF ~Has(p, "target_percentage") \/ p.steps_percentage[1] = 0
             THEN [raised |-> TRUE, percentages |-> <<>>]
             ELSE LET start == Get(p, "start_percentage", DEFAULT_PERCENTAGE)
                      target == p.target_percentage[1]
                      step == p.steps_percentage[1]
                      percentages == IF is_expansion
                                     THEN PyRange(start, target + step, step)
                                     ELSE PyRange(start, target - step, -step)
                  IN [raised |-> FALSE, percentages |-> Without(percentages, 100)])
       ELSE LET target == Get(p, "target_percentage",
                              IF is_expansion THEN DEFAULT_LENGTH_EXPANSION
                              ELSE DEFAULT_LENGTH_COMPRESSION)
            IN [raised |-> FALSE,
                percentages |-> IF target = 100 THEN <<>> ELSE <<target>>]

-----------------------------------------------------------------------------
(* calculate_percentages, app/utils/completion_helpers.py *)

\* sorted(s), ascending
RECURSIVE SortAsc(_)
SortAsc(s) ==
    IF s = <<>> THEN <<>>
    ELSE LET m == CHOOSE i \in DOMAIN s : \A j \in DOMAIN s : s[i] <= s[j]
         IN <<s[m]>> \o SortAsc([k \in 1..(Len(s) - 1) |-> IF k < m THEN s[k] ELSE s[k + 1]])

Reverse(s) == [i \in DOMAIN s |-> s[Len(s) + 1 - i]]

\* sorted(s, reverse=reverse)
Sorted(s, reverse) == IF reverse THEN Reverse(SortAsc(s)) ELSE SortAsc(s)

\* [v] * n
Repeat(v, n) == [i \in 1..n |-> v]

Returned(percentages) == [raised |-> FALSE, diverges |-> FALSE, percentages |-> percentages]

Raised == [raised |-> TRUE, diverges |-> FALSE, percentages |-> <<>>]

Diverges == [raised |-> FALSE, diverges |-> TRUE, percentages |-> <<>>]

\* "start and target and step": walk from start to target, returned unsorted.
\* The loop never ends when the step moves current away from the target.
StartTargetStep(start, target, step, is_expansion) ==
    IF is_expansion
    THEN (IF start < target /\ step < 0 THEN Diverges
          ELSE Returned(<<start>>
                        \o (IF start < target THEN PyRange(start + step, target, step) ELSE <<>>)
                        \o <<target>>))
    ELSE (IF start > target /\ step < 0 THEN Diverges
          ELSE Returned(<<start>>
                        \o (IF start > target THEN PyRange(start - step, target, -step) ELSE <<>>)
                        \o <<target>>))

\* "target and step and not versions and not start": walk from 100 to target
TargetStep(target, step, is_expansion) ==
    IF is_expansion
    THEN (IF 100 < target /\ step < 0 THEN Diverges
          ELSE Returned((IF 100 < target THEN PyRange(100, target, step) ELSE <<>>)
                        \o <<target>>))
    ELSE (IF 100 > target /\ step < 0 THEN Diverges
          ELSE Returned((IF 100 > target THEN PyRange(100, target, -step) ELSE <<>>)
                        \o <<target>>))

\* total_diff / round(num_steps) is a float; it and the sums built from it are
\* exact when the quotient is a dyadic rational
ExactStep(total_diff, n) == \E k \in {1, 2, 4, 8, 16} : (total_diff * k) % n = 0

\* "start and target and not step and not versions": the step is
\* total_diff / round(total_diff / 20), a ZeroDivisionError when that rounds to 0;
\* current comes to the target after round(total_diff / 20) steps. When the float
\* sum is still short of the target there (short), the loop runs once more. The
\* last element is overwritten by the target.
StartTarget(start, target, is_expansion, short) ==
    LET total_diff == Abs(target - start)
        n == PyRound(total_diff, 20)
        forward == (is_expansion /\ start < target) \/ (~is_expansion /\ start > target)
        walk == [k \in 1..(IF short THEN n + 1 ELSE n) |->
                    IF is_expansion
                    THEN PyRound(start * n + k * total_diff, n)
                    ELSE PyRound(start * n - k * total_diff, n)]
        percentages == <<start>> \o (IF forward THEN walk ELSE <<>>)
    IN IF n = 0 THEN Raised
       ELSE Returned([i \in DOMAIN percentages |->
                        IF i = Len(percentages) THEN target ELSE percentages[i]])

\* calculate_percentages(data, is_expansion); the "all parameters" branch of
\* lines 345-357 is never taken, its condition implies that of lines 288-305
CalculatePercentages(data, is_expansion, short) ==
    LET target == Get(data, "target_percentage", 0)
        start == Get(data, "start_percentage", 0)
        step == Get(data, "steps_percentage", 0)
        versions == Get(data, "versions", 0)
        sorted(r) == IF r.raised \/ r.diverges THEN r
                     ELSE Returned(Sorted(r.percentages, ~is_expansion))
    IN IF start # 0 /\ target # 0 /\ step # 0
       THEN StartTargetStep(start, target, step, is_expansion)
       ELSE IF versions # 0 /\ target # 0 /\ step = 0 /\ start = 0
       THEN Returned(Repeat(target, versions))
       ELSE IF target # 0 /\ step # 0 /\ versions = 0 /\ start = 0
       THEN sorted(TargetStep(target, step, is_expansion))
       ELSE IF target # 0 /\ step = 0 /\ versions = 0 /\ start = 0
       THEN sorted(Returned(<<target>>))
       ELSE IF start # 0 /\ target # 0 /\ step = 0 /\ versions = 0
       THEN sorted(StartTarget(start, target, is_expansion, short))
       ELSE sorted(Returned(<<IF is_expansion THEN 120 ELSE 50>>))

\* what calculate_percentages can return: the float sum of an inexact step may
\* or may not be short of the target
CalculatePercentagesOutcomes(data, is_expansion) ==
    LET total_diff == Abs(Get(data, "target_percentage", 0) - Get(data, "start_percentage", 0))
        n == PyRound(total_diff, 20)
    IN {CalculatePercentages(data, is_expansion, short) :
            short \in IF n = 0 \/ ExactStep(total_diff, n) THEN {FALSE} ELSE BOOLEAN}

-----------------------------------------------------------------------------
(* Texts, completions and results *)

\* count_tokens, app/utils/ai_helpers.py: a text is the sequence of its tokens
count_tokens(text) == Len(text)

\* a version of a completion or of a result; every key is optional in a completion
Version(text, final_tokens, final_percentage) ==
    [text |-> text, final_tokens |-> final_tokens, final_percentage |-> final_percentage]

\* a length entry of a completion or of a result
Length(target_percentage, target_tokens, versions) ==
    [target_percentage |-> target_percentage, target_tokens |-> target_tokens,
     versions |-> versions]

\* a fragment of a completion: 'lengths' (the TransformationRequest format) or
\* 'versions' (the format the compress controller asks for)
Fragment(lengths) == [lengths |-> lengths, versions |-> None]

VersionsFragment(versions) == [lengths |-> None, versions |-> versions]

\* a warning: its code and the indices it names (fragment, length, version)
Warning(code, key) == [code |-> code, key |-> key]

RECURSIVE ConcatAll(_)
ConcatAll(ss) == IF ss = <<>> THEN <<>> ELSE ss[1] \o ConcatAll(Tail(ss))

\* s[:n]
Take(s, n) == [i \in 1..Min(n, Len(s)) |-> s[i]]

-----------------------------------------------------------------------------
(* TransformationRequest.parse_ai_response, app/utils/text_transform.py *)

\* _create_placeholder_length
TR_CreatePlaceholderLength(target_percentage, text, p) ==
    Length(Some(target_percentage), None,
           Some(Repeat(Version(Some(text), None, None), Get(p, "versions", DEFAULT_VERSIONS))))

\* _create_placeholder_fragment
TR_CreatePlaceholderFragment(text, p, plan) ==
    Fragment(Some([j \in DOMAIN plan |->
        TR_CreatePlaceholderLength(plan[j].target_percentage, text, p)]))

\* lines 371-391: a length without 'versions' gets one copy of the original, a
\* length with fewer versions than params' versions is padded with the original
TR_FixVersions(length_config, text, p) ==
    IF length_config.versions = None
    THEN [length_config EXCEPT !.versions = Some(<<Version(Some(text), None, None)>>)]
    ELSE LET expected_versions == Get(p, "versions", DEFAULT_VERSIONS)
             versions == length_config.versions[1]
         IN [length_config EXCEPT !.versions =
                Some(versions \o Repeat(Version(Some(text), None, None),
                                        expected_versions - Len(versions)))]

\* the warnings of lines 371-391 for length j (0-based) of fragment i (0-based)
TR_VersionWarnings(length_config, i, j, p) ==
    IF length_config.versions = None
    THEN <<Warning("length_missing_versions", <<i, j>>)>>
    ELSE IF Len(length_config.versions[1]) < Get(p, "versions", DEFAULT_VERSIONS)
    THEN <<Warning("fewer_versions", <<i, j>>)>>
    ELSE <<>>

\* lines 337-393, one fragment (i is 0-based): [fragment, warnings]
TR_ProcessFragment(fragments, i, text, p, plan) ==
    IF i >= Len(fragments)
    THEN [fragment |-> TR_CreatePlaceholderFragment(text, p, plan),
          warnings |-> <<Warning("fragment_missing_from_response", <<i>>)>>]
    ELSE IF fragments[i + 1].lengths = None
    THEN [fragment |-> TR_CreatePlaceholderFragment(text, p, plan),
          warnings |-> <<Warning("fragment_missing_lengths", <<i>>)>>]
    ELSE LET given == fragments[i + 1].lengths[1]
             padded == given \o [j \in 1..(Len(plan) - Len(given)) |->
                          TR_CreatePlaceholderLength(
                              plan[Len(given) + j].target_percentage, text, p)]
         IN [fragment |-> Fragment(Some([j \in DOMAIN padded |->
                              TR_FixVersions(padded[j], text, p)])),
             warnings |->
                (IF Len(given) < Len(plan)
                 THEN <<Warning("fewer_lengths", <<i>>)>> ELSE <<>>)
                \o ConcatAll([j \in DOMAIN padded |->
                                TR_VersionWarnings(padded[j], i, j - 1, p)])]

\* _validate_version: TRUE when it raises ValueError
ValidateVersionRaises(version, original, target_percentage, op) ==
    IF version.text = None THEN TRUE
    ELSE IF op = "rephrase" THEN FALSE
    ELSE LET original_tokens == count_tokens(original)
             target_tokens == PyRound(original_tokens * target_percentage, 100)
             actual_tokens == count_tokens(version.text[1])
         \* tolerance = 2.0
         IN Abs(actual_tokens - target_tokens) > target_tokens * 2

\* lines 413-439, the single text: TRUE when a ValueError is raised
TR_SingleRaises(resp, text, plan, op) ==
    \/ resp.lengths = None
    \/ Len(resp.lengths[1]) < Len(plan)
    \/ \E i \in 1..Len(plan) :
         \/ resp.lengths[1][i].versions = None
         \/ \E j \in 1..Min(MAX_VERSIONS, Len(resp.lengths[1][i].versions[1])) :
              ValidateVersionRaises(resp.lengths[1][i].versions[1][j], text,
                                    plan[i].target_percentage, op)

\* lines 421-429: lengths cut to the plan, versions cut to MAX_VERSIONS
TR_SingleLengths(resp, plan) ==
    [i \in 1..Len(plan) |->
        [resp.lengths[1][i] EXCEPT !.versions =
            Some(Take(resp.lengths[1][i].versions[1], MAX_VERSIONS))]]

\* parse_ai_response: raised (the APIRequestError of line 443), else the
\* response as rewritten and the warnings put into its metadata
TR_ParseAiResponse(resp, c, p, plan, op) ==
    IF c.is_fragments
    THEN LET fragments == IF resp.fragments = None THEN <<>> ELSE resp.fragments[1]
             processed == [i \in DOMAIN c.texts |->
                             TR_ProcessFragment(fragments, i - 1, c.texts[i], p, plan)]
         IN [raised |-> FALSE,
             response |-> [resp EXCEPT !.fragments =
                              Some([i \in DOMAIN processed |-> processed[i].fragment])],
             warnings |->
                (IF resp.fragments = None
                 THEN <<Warning("missing_fragments_key", <<>>)>> ELSE <<>>)
                \o ConcatAll([i \in DOMAIN processed |-> processed[i].warnings])]
    ELSE IF TR_SingleRaises(resp, c.texts[1], plan, op)
    THEN [raised |-> TRUE, response |-> resp, warnings |-> <<>>]
    ELSE [raised |-> FALSE,
          response |-> [resp EXCEPT !.lengths = Some(TR_SingleLengths(resp, plan))],
          warnings |-> <<>>]

-----------------------------------------------------------------------------
(* ResponseFormatter.format_response, app/utils/response_formatter.py *)

\* round(final_tokens / original_tokens * 100, 1), in tenths of a percent
FinalPercentage(final_tokens, original_tokens) ==
    PyRound(final_tokens * 1000, original_tokens)

\* abs(final_percentage - target_percentage) / target_percentage > tolerance,
\* with tolerance = 0.2 and final_percentage in tenths; target_percentage # 0
Deviates(final_percentage, target_percentage) ==
    /\ target_percentage > 0
    /\ 5 * Abs(final_percentage - 10 * target_percentage) > 10 * target_percentage

\* _create_placeholder_length
RF_CreatePlaceholderLength(target_percentage, original_text, p) ==
    LET original_tokens == count_tokens(original_text)
    IN Length(Some(target_percentage),
              Some(PyRound(original_tokens * target_percentage, 100)),
              Some(Repeat(Version(Some(original_text), Some(original_tokens), Some(1000)),
                          Get(p, "versions", DEFAULT_VERSIONS))))

\* _create_placeholder_fragment: the targets are those of _get_target_percentages
\* for 'expand', whatever the operation
RF_CreatePlaceholderFragment(original_text, p) ==
    LET target_percentages == GetTargetPercentages(p, "expand").percentages
    IN Fragment(Some([j \in DOMAIN target_percentages |->
          RF_CreatePlaceholderLength(target_percentages[j], original_text, p)]))

\* lines 125-163, one version (i, j, k 0-based): the version appended, if any,
\* and the warnings.  The divisions by original_tokens and by target_percentage
\* raise ZeroDivisionError, caught at line 156: the version is dropped.
FormatVersion(version, i, j, k, original_text, target_percentage) ==
    LET missing == version.text = None
        text == IF missing THEN original_text ELSE version.text[1]
        original_tokens == count_tokens(original_text)
        final_tokens == count_tokens(text)
        raises == original_tokens = 0 \/ target_percentage = 0
        final_percentage == IF raises THEN 0
                            ELSE FinalPercentage(final_tokens, original_tokens)
    IN [versions |-> IF raises THEN <<>>
                     ELSE <<Version(Some(text), Some(final_tokens), Some(final_percentage))>>,
        warnings |->
            (IF missing THEN <<Warning("version_missing", <<i, j, k>>)>> ELSE <<>>)
            \o (IF raises THEN <<Warning("version_error", <<i, j, k>>)>>
                ELSE IF Deviates(final_percentage, target_percentage)
                THEN <<Warning("target_deviation", <<i, j, k>>)>>
                ELSE <<>>)]

\* lines 106-169, one length of one fragment: [lengths, warnings]
FormatLength(given, i, j, original_text, target_percentage, p) ==
    IF j >= Len(given)
    THEN [lengths |-> <<RF_CreatePlaceholderLength(target_percentage, original_text, p)>>,
          warnings |-> <<Warning("length_missing", <<i, j>>)>>]
    ELSE LET length_config == given[j + 1]
             versions == IF length_config.versions = None THEN <<>>
                         ELSE length_config.versions[1]
             done == [k \in DOMAIN versions |->
                        FormatVersion(versions[k], i, j, k - 1, original_text,
                                      target_percentage)]
         IN [lengths |-> <<Length(Some(target_percentage),
                             Some(PyRound(count_tokens(original_text) * target_percentage, 100)),
                             Some(ConcatAll([k \in DOMAIN done |-> done[k].versions])))>>,
             warnings |-> ConcatAll([k \in DOMAIN done |-> done[k].warnings])]

\* lines 89-188, one fragment: [fragments, warnings]
FormatFragment(fragments, i, original_text, target_percentages, p) ==
    IF i >= Len(fragments)
    THEN \* IndexError, caught at line 182: nothing is appended
         [fragments |-> <<>>, warnings |-> <<Warning("fragment_error", <<i>>)>>]
    ELSE IF fragments[i + 1].lengths = None
    THEN (IF GetTargetPercentages(p, "expand").raised
          THEN [fragments |-> <<>>, warnings |-> <<Warning("fragment_missing", <<i>>),
                                                  Warning("fragment_error", <<i>>)>>]
          ELSE [fragments |-> <<RF_CreatePlaceholderFragment(original_text, p)>>,
                warnings |-> <<Warning("fragment_missing", <<i>>)>>])
    ELSE LET done == [j \in DOMAIN target_percentages |->
                        FormatLength(fragments[i + 1].lengths[1], i, j - 1, original_text,
                                     target_percentages[j], p)]
         IN [fragments |-> <<Fragment(Some(ConcatAll([j \in DOMAIN done |-> done[j].lengths])))>>,
             warnings |-> ConcatAll([j \in DOMAIN done |-> done[j].warnings])]

\* what a handler answers: the HTTP status, the error code if the body is an
\* error, and else the fragments (each with lengths or versions), the warnings
\* and the target percentages of the metadata
ErrorResult(status, code) ==
    [status |-> status, code |-> Some(code), fragments |-> <<>>, warnings |-> <<>>,
     target_percentages |-> <<>>]

OkResult(fragments, ws) ==
    [status |-> 200, code |-> None, fragments |-> fragments, warnings |-> ws,
     target_percentages |-> <<>>]

\* lines 37-61, the rephrase branch: fragments are passed through as delivered
FormatRephrase(ai_response, p, c, validation_warnings) ==
    LET fragments == IF ai_response.fragments = None THEN <<>> ELSE ai_response.fragments[1]
        placeholder(text) ==
            Fragment(Some(<<Length(None, None,
                Some(Repeat(Version(Some(text), None, None),
                            Get(p, "versions", DEFAULT_VERSIONS))))>>))
    IN IF Len(fragments) < Len(c.texts)
       THEN ErrorResult(200, "format_error")
       ELSE OkResult([i \in DOMAIN c.texts |->
                        IF fragments[i].lengths = None THEN placeholder(c.texts[i])
                        ELSE fragments[i]],
                     validation_warnings)

\* format_response
FormatResponse(ai_response, p, c, op, validation_warnings) ==
    IF op = "rephrase" THEN FormatRephrase(ai_response, p, c, validation_warnings)
    ELSE IF GetTargetPercentages(p, op).raised THEN ErrorResult(200, "format_error")
    ELSE LET fragments ==
                 IF ~c.is_fragments /\ ai_response.lengths # None
                 THEN <<Fragment(ai_response.lengths)>>
                 ELSE IF ai_response.fragments = None THEN <<>>
                 ELSE ai_response.fragments[1]
             target_percentages == GetTargetPercentages(p, op).percentages
             done == [i \in DOMAIN c.texts |->
                        FormatFragment(fragments, i - 1, c.texts[i], target_percentages, p)]
         IN OkResult(ConcatAll([i \in DOMAIN done |-> done[i].fragments]),
                     validation_warnings
                     \o ConcatAll([i \in DOMAIN done |-> done[i].warnings]))

-----------------------------------------------------------------------------
(* The compress controller, app/controllers/compress.py *)

\* calculate_percentages(data), lines 14-40
CompressCalculatePercentages(data) ==
    LET target == Get(data, "target_percentage", 50)
    IN IF ~Has(data, "steps_percentage") /\ ~Has(data, "start_percentage")
       THEN Returned(Repeat(target, Get(data, "versions", 1)))
       ELSE IF Has(data, "start_percentage") /\ Has(data, "versions")
       THEN LET start == data.start_percentage[1]
                version_count == data.versions[1]
            IN Returned([i \in 1..version_count |->
                  IF version_count > 1
                  THEN PyRound(start * (version_count - 1) - (start - target) * (i - 1),
                               version_count - 1)
                  ELSE start])
       ELSE LET step == Get(data, "steps_percentage", 20)
                current == Get(data, "start_percentage", 100)
            IN IF current < target THEN Returned(<<>>)
               ELSE IF step <= 0 THEN Diverges
               ELSE Returned(PyRange(current, target - 1, -step))

\* parse_ai_response, app/utils/ai_helpers.py lines 42-100: 'fragments' is looked
\* at first, then 'versions', then 'error'
ParseAiResponse(resp) ==
    IF resp.fragments # None
    THEN (IF \E i \in DOMAIN resp.fragments[1] : resp.fragments[1][i].versions = None
          THEN [error |-> TRUE, versions |-> <<>>]
          ELSE [error |-> FALSE,
                versions |-> ConcatAll([i \in DOMAIN resp.fragments[1] |->
                                           resp.fragments[1][i].versions[1]])])
    ELSE IF resp.versions # None
    THEN [error |-> resp.error, versions |-> resp.versions[1]]
    ELSE [error |-> TRUE, versions |-> <<>>]

\* a version of the compress controller's answer; final_percentage is the
\* unrounded quotient num_tokens / original_tokens * 100, kept as <<num, den>>
CompressVersion(text, target, original_tokens) ==
    [text |-> Some(text), final_tokens |-> Some(count_tokens(text)),
     final_percentage |-> Some(<<count_tokens(text) * 100, original_tokens>>),
     target_percentage |-> target]

\* s[a:b] with 0 <= a <= b
Slice(s, a, b) == [i \in 1..(Min(b, Len(s)) - Min(a, Len(s))) |-> s[Min(a, Len(s)) + i]]

\* lines 159-216, the fragments of a list content
CompressFragments(versions, c, target_percentages) ==
    LET n == Len(target_percentages)
        mine(i) == Slice(versions, (i - 1) * n, i * n)
        raises == \E i \in DOMAIN c.texts :
                     \E j \in DOMAIN mine(i) :
                        mine(i)[j].text = None \/ count_tokens(c.texts[i]) = 0
    IN IF raises THEN ErrorResult(500, "internal_server_error")
       ELSE [status |-> 200, code |-> None, warnings |-> <<>>,
             target_percentages |-> target_percentages,
             fragments |-> [i \in DOMAIN c.texts |->
                VersionsFragment(Some([j \in DOMAIN mine(i) |->
                    CompressVersion(mine(i)[j].text[1], target_percentages[j],
                                    count_tokens(c.texts[i]))]))]]

\* abs(final_percentage - 100.0) < 0.1
EffectivelyOriginal(num_tokens, original_tokens) ==
    1000 * Abs(num_tokens - original_tokens) < original_tokens

\* lines 233-270, the versions of a single text
CompressSingle(versions, c, target_percentages) ==
    LET original_tokens == count_tokens(c.texts[1])
        kept(i) == ~EffectivelyOriginal(count_tokens(versions[i].text[1]), original_tokens)
        raises == \/ \E i \in DOMAIN versions : versions[i].text = None
                  \/ versions # <<>> /\ original_tokens = 0
                  \/ \E i \in DOMAIN versions : kept(i) /\ i > Len(target_percentages)
        out == ConcatAll([i \in DOMAIN versions |->
                  IF kept(i)
                  THEN <<CompressVersion(versions[i].text[1], target_percentages[i],
                                         original_tokens)>>
                  ELSE <<>>])
    IN IF raises THEN ErrorResult(500, "internal_server_error")
       ELSE [status |-> 200, code |-> None, warnings |-> <<>>,
             target_percentages |->
                Slice(target_percentages, Len(target_percentages) - Len(out),
                      Len(target_percentages)),
             fragments |-> <<VersionsFragment(Some(out))>>]

-----------------------------------------------------------------------------
(* The requests and completions explored *)

\* the number of fragments of a list content
NumFragments == 2

\* how far the counts of a completion (fragments, lengths, versions) may lie
\* from the counts the request asks for
Slack == 1

Opt(S) == {None} \cup {Some(v) : v \in S}

\* the original texts: text i consists of 10 * i tokens i
Orig(i) == Repeat(i, 10 * i)

SingleContent == [is_fragments |-> FALSE, texts |-> <<Orig(1)>>]

FragmentContent == [is_fragments |-> TRUE, texts |-> [i \in 1..NumFragments |-> Orig(i)]]

\* content = ""
EmptyContent == [is_fragments |-> FALSE, texts |-> <<<<>>>>]

\* no content field, or content = []
NoContent == [is_fragments |-> FALSE, texts |-> <<>>]

\* the parameters of expand and compress requests
TransformParams ==
    [target_percentage : Opt({0, 40, 90, 100, 150}),
     target_percentages : Opt({<<80, 60>>, <<100, 50>>, <<150>>}),
     start_percentage : Opt({80, 100, 120}),
     steps_percentage : Opt({0, 10, 20, 60}),
     versions : Opt({1, 2, 6}),
     style : {None},
     unknown : {<<>>}]
    \cup
    [target_percentage : Opt({40, 100}),
     target_percentages : {None},
     start_percentage : {None},
     steps_percentage : {None},
     versions : Opt({2}),
     style : Opt({"elaborate", "poetic"}),
     unknown : {<<>>, <<"colour">>, <<"colour", "size">>}]

\* the parameters of rephrase requests
RephraseParams ==
    [target_percentage : Opt({50}),
     target_percentages : Opt({<<80, 60>>}),
     start_percentage : {None},
     steps_percentage : {None},
     versions : Opt({1, 2, 6}),
     style : {None},
     unknown : {<<>>}]

\* the parameters of requests to the compress controller
CompressParams ==
    [target_percentage : Opt({40, 150}),
     target_percentages : Opt({<<80, 60>>}),
     start_percentage : Opt({60, 80}),
     steps_percentage : Opt({0, 10}),
     versions : Opt({2, 5}),
     style : {None},
     unknown : {<<>>}]
    \cup
    [target_percentage : Opt({50}),
     target_percentages : {None},
     start_percentage : {None},
     steps_percentage : Opt({-10}),
     versions : Opt({10}),
     style : {None},
     unknown : {<<>>}]

\* what the completion may write for a text: 40, 70 or 150 percent of its tokens
Ratios == {40, 70, 150}

\* the text written for content item i at a ratio
RespText(i, ratio) == Repeat(9, (Len(Orig(i)) * ratio) \div 100)

\* the final_tokens, final_percentage and target_tokens the completion may embed
Embedded == {None, Some(999)}

Around(n) == {k \in (n - Slack)..(n + Slack) : k >= 0}

Completion(err, fragments, lengths, versions) ==
    [error |-> err, fragments |-> fragments, lengths |-> lengths, versions |-> versions]

RespLength(nv, t, e) == Length(None, e, Some(Repeat(Version(Some(t), e, e), nv)))

\* completions in the TransformationRequest format for content c and a plan:
\* nf fragments (or top-level lengths for a single text), nl lengths, nv versions
ShapedCompletions(c, plan) ==
    {IF c.is_fragments
     THEN Completion(FALSE, Some([i \in 1..nf |->
                        Fragment(Some(Repeat(RespLength(nv, RespText(i, r), e), nl)))]),
                     None, None)
     ELSE Completion(FALSE, None, Some(Repeat(RespLength(nv, RespText(1, r), e), nl)), None) :
        nf \in (IF c.is_fragments THEN Around(Len(c.texts)) ELSE {1}),
        nl \in Around(Len(plan)),
        nv \in Around(plan[1].versions_per_length),
        r \in Ratios, e \in Embedded}

\* completions with a key missing, and the error envelope (alone, and next to
\* a body of valid shape)
BrokenCompletions(c) ==
    LET lengths == {<<Length(None, None, None)>>,
                    <<Length(None, None, Some(<<Version(None, None, None)>>))>>}
    IN {Completion(TRUE, None, None, None), Completion(FALSE, None, None, None)}
       \cup {IF c.is_fragments
             THEN Completion(TRUE, Some([i \in DOMAIN c.texts |->
                                Fragment(Some(<<RespLength(1, RespText(i, 70), None)>>))]),
                             None, None)
             ELSE Completion(TRUE, None, Some(<<RespLength(1, RespText(1, 70), None)>>), None)}
       \cup (IF c.is_fragments
             THEN {Completion(FALSE, Some(Repeat(Fragment(None), Len(c.texts))), None, None)}
                  \cup {Completion(FALSE, Some(Repeat(Fragment(Some(l)), Len(c.texts))),
                                   None, None) : l \in lengths}
             ELSE {Completion(FALSE, None, Some(l), None) : l \in lengths})

Completions(c, plan) == ShapedCompletions(c, plan) \cup BrokenCompletions(c)

\* completions in the format the compress controller asks for: the versions of
\* each fragment, or top-level versions; with or without an 'error' key
CompressCompletions(c, n) ==
    {IF c.is_fragments
     THEN Completion(err, Some([i \in 1..nf |->
                        VersionsFragment(Some(Repeat(Version(Some(RespText(i, r)), e, e), nv)))]),
                     None, None)
     ELSE Completion(err, None, None, Some(Repeat(Version(Some(RespText(1, r)), e, e), nv))) :
        nf \in (IF c.is_fragments THEN Around(Len(c.texts)) ELSE {1}),
        nv \in Around(n), r \in Ratios, e \in Embedded, err \in BOOLEAN}
    \cup {Completion(TRUE, None, None, None), Completion(FALSE, None, None, None),
          Completion(FALSE, Some(<<VersionsFragment(None)>>), None, None),
          Completion(FALSE, None, None, Some(<<Version(None, None, None)>>))}

-----------------------------------------------------------------------------
(* create_base_completion, app/utils/completion_helpers.py lines 170-227 *)

\* the largest max_retries explored
MaxRetries == 3

\* the largest initial_retry_delay explored, in seconds
MaxDelay == 2

\* what one call of groq_client.chat.completions.create does: it returns a
\* response, or raises the provider's InternalServerError, its RateLimitError,
\* or some other exception
GatewayOutcomes == {"ok", "InternalServerError", "RateLimitError", "other"}

\* the exception classes bound in the module's namespace: the only import of
\* one is "from app.exceptions import APIRequestError" (line 15); Exception is
\* a builtin
BoundExceptionNames == {"APIRequestError", "Exception"}

\* no call of create_base_completion is under way
NoBaseCompletion ==
    [max_retries |-> 0, initial_retry_delay |-> 0, gateway |-> <<>>, attempt |-> 0,
     retry_delay |-> 0, slept |-> <<>>, calls |-> 0, ended |-> "idle", status |-> 0]

\* the call ends by raising an exception
RaiseFrom(b, exception, status) == [b EXCEPT !.ended = exception, !.status = status]

\* lines 203-223, a transient error: the last attempt raises APIRequestError,
\* an earlier one sleeps, doubles the delay and goes round the loop
RetryOrGiveUp(b, status) ==
    IF b.attempt = b.max_retries - 1
    THEN RaiseFrom(b, "APIRequestError", status)
    ELSE [b EXCEPT !.slept = Append(b.slept, b.retry_delay),
                   !.retry_delay = 2 * b.retry_delay,
                   !.attempt = b.attempt + 1]

\* lines 203-227, the except clauses for an exception the gateway raised: each
\* clause first evaluates the class it names, which raises NameError when the
\* name is not bound
HandleException(b, raised) ==
    IF "InternalServerError" \notin BoundExceptionNames THEN RaiseFrom(b, "NameError", 0)
    ELSE IF raised = "InternalServerError" THEN RetryOrGiveUp(b, 503)
    ELSE IF "RateLimitError" \notin BoundExceptionNames THEN RaiseFrom(b, "NameError", 0)
    ELSE IF raised = "RateLimitError" THEN RetryOrGiveUp(b, 429)
    ELSE RaiseFrom(b, "APIRequestError", 500)

-----------------------------------------------------------------------------
(* require_api_key, app/middleware/auth.py, and Config.API_KEYS *)

\* the API keys a deployment may configure and a client may send
Keys == {"test-key", "premium-key", "stolen-key"}

\* the words an Authorization header is made of
Words == {"Bearer", "bearer", "Basic"} \cup Keys

\* the longest header explored, in words
MaxWords == 3

\* str.lower()
Lower(w) == IF w = "Bearer" THEN "bearer" ELSE w

\* request.headers.get('Authorization'): None when there is no header or it is
\* the empty string (both fail "if not auth_header"), else the header as
\* auth_header.split() sees it, the sequence of its words (a header of blanks
\* has no words)
Headers == {None} \cup {Some(ws) : ws \in UNION {[1..n -> Words] : n \in 0..MaxWords}}

\* Config.API_KEYS: the development default, and what production reads from
\* VALID_API_KEYS
ApiKeySets == {{"test-key"}, {"test-key", "premium-key"}, {}}

\* no request is at the decorator
NoAuth == [header |-> None, api_keys |-> {}, status |-> 0, code |-> "none",
           handler_ran |-> FALSE]

\* decorated_function, lines 7-47: the answer and whether f was called. A
\* header that is not two words fails to unpack (ValueError, line 38); a word
\* is never empty, so "if not token" (line 29) never applies.
DecoratedFunction(a) ==
    IF a.header = None
    THEN [a EXCEPT !.status = 401, !.code = "unauthorized"]
    ELSE LET parts == a.header[1]
         IN IF Len(parts) # 2
            THEN [a EXCEPT !.status = 401, !.code = "invalid_auth"]
            ELSE IF Lower(parts[1]) # "bearer"
            THEN [a EXCEPT !.status = 401, !.code = "invalid_auth"]
            ELSE [a EXCEPT !.handler_ran = TRUE, !.code = "called"]

-----------------------------------------------------------------------------
(* The callers of calculate_percentages: expand_text, compress_text and      *)
(* create_completion of app/utils/completion_helpers.py                      *)

\* the integers a request may carry for the planning parameters
PlanningData ==
    [target_percentage : Opt({0, 40, 90, 120, 150}),
     target_percentages : {None},
     start_percentage : Opt({0, 60, 100, 110, 150}),
     steps_percentage : Opt({-10, 0, 7, 20}),
     versions : Opt({0, 2, 3}),
     style : {None},
     unknown : {<<>>}]

\* expand.py lines 117-126: versioning_params; target_percentage defaults to 120
\* and the parameters the request does not carry are left out
VersioningParams(p) == [p EXCEPT !.target_percentage = Some(Get(p, "target_percentage", 120))]

NoPlanning == [caller |-> "none", data |-> <<>>, is_expansion |-> FALSE,
               outcome |-> "idle", percentages |-> <<>>]

\* the call has ended with what a calculate_percentages did: it returned its
\* list, raised, or does not come back
Ended(pl, r) ==
    [pl EXCEPT !.outcome = IF r.diverges THEN "hung"
                           ELSE IF r.raised THEN "raised" ELSE "returned",
               !.percentages = r.percentages]

-----------------------------------------------------------------------------
(* TransformationRequest of app/models/requests/transformation.py *)

\* the parameter names a request may carry, and a name it never carries
ParamNames == {"style", "versions", "tone"}

AbsentName == "aspects"

\* the value a request carries under a name
ParamValue(key) ==
    IF key = "style" THEN "elaborate" ELSE IF key = "versions" THEN "2" ELSE "formal"

\* the sequences over S without repetition
RECURSIVE Injective(_)
Injective(S) ==
    {<<>>} \cup UNION {{<<x>> \o s : s \in Injective(S \ {x})} : x \in S}

\* from_flask_request, lines 95-98: params is a dict, a sequence of items with
\* distinct keys in insertion order
ParamDicts ==
    {[i \in DOMAIN ks |-> [key |-> ks[i], value |-> ParamValue(ks[i])]] :
        ks \in Injective(ParamNames)}

\* the elements of a list
Elements(s) == {s[i] : i \in DOMAIN s}

\* the keys of a dict, in order
DictKeys(d) == [i \in DOMAIN d |-> d[i].key]

\* dict.get(key, default)
DictGet(d, key, default) ==
    IF \E i \in DOMAIN d : d[i].key = key
    THEN Some(d[CHOOSE i \in DOMAIN d : d[i].key = key].value)
    ELSE default

NoTracking == [content |-> <<>>, params |-> <<>>, processed_params |-> <<>>,
               called |-> "none", key |-> "none", value |-> None]

\* mark_param_processed that appends also a parameter it has already listed
MarkParamProcessedAgain(t, param) ==
    IF param \in Elements(DictKeys(t.params))
    THEN [t EXCEPT !.processed_params = Append(@, param)]
    ELSE t

\* mark_param_processed, transformation.py lines 32-35
MarkParamProcessed(t, param) ==
    IF param \in Elements(DictKeys(t.params)) /\ param \notin Elements(t.processed_params)
    THEN [t EXCEPT !.processed_params = Append(@, param)]
    ELSE t

\* the property unprocessed_params, transformation.py lines 37-40
UnprocessedParams(t) ==
    SelectSeq(DictKeys(t.params), LAMBDA p : p \notin Elements(t.processed_params))

-----------------------------------------------------------------------------
(* chunk_text, app/utils/text_processing.py *)

\* the longest text, the largest chunk_size and the most chunks a call is
\* followed for
MaxTextLength == 6

MaxChunkSize == 4

MaxChunks == 8

\* a character of a text: the space, or a letter named by its position, so
\* that a chunk tells which characters of the text it holds
Space == 0

Texts == UNION {{[i \in 1..n |-> IF i \in spaces THEN Space ELSE i] : spaces \in SUBSET (1..n)} : n \in 0..MaxTextLength}

\* no call of chunk_text is under way
NoChunking == [text |-> <<>>, chunk_size |-> 0, overlap |-> 0, start |-> 0,
               chunks |-> <<>>, ended |-> "idle"]

\* text[i] for an index i < len(text): a negative index counts from the end,
\* and one below -len(text) is an IndexError
InRange(text, i) == i >= 0 - Len(text)

CharAt(text, i) == IF i >= 0 THEN text[i + 1] ELSE text[Len(text) + i + 1]

\* text[a:b]: negative indices count from the end, both are clamped to the text
Clamp(text, i) == IF i < 0 THEN Max(Len(text) + i, 0) ELSE Min(i, Len(text))

PySlice(text, a, b) == Slice(text, Clamp(text, a), Max(Clamp(text, a), Clamp(text, b)))

\* str.strip() on a text whose only whitespace is the space
RECURSIVE StripSpaces(_)
StripSpaces(s) ==
    IF s = <<>> THEN s
    ELSE IF Head(s) = Space THEN StripSpaces(Tail(s))
    ELSE IF s[Len(s)] = Space THEN StripSpaces(SubSeq(s, 1, Len(s) - 1))
    ELSE s

\* the inner loop: end moves back while it is beyond start and text[end] is
\* not a space; -1 - len(text) stands for the IndexError of text[end]
RECURSIVE BackToSpace(_, _, _)
BackToSpace(text, start, end) ==
    IF end <= start THEN end
    ELSE IF ~InRange(text, end) THEN 0 - Len(text) - 1
    ELSE IF CharAt(text, end) # Space THEN BackToSpace(text, start, end - 1)
    ELSE end

\* the end of the chunk that begins at start
ChunkEnd(text, start, chunk_size) ==
    LET end == start + chunk_size
        back == BackToSpace(text, start, end)
    IN IF end < Len(text)
       THEN IF back = start THEN start + chunk_size ELSE back
       ELSE end

-----------------------------------------------------------------------------
(* The handlers *)

NoTransform == [params |-> None, is_expansion |-> FALSE, target_percentages |-> <<>>]

NoResult == [status |-> 0, code |-> None, fragments |-> <<>>, warnings |-> <<>>,
             target_percentages |-> <<>>]

NoResponse == Completion(FALSE, None, None, None)

Init ==
    /\ \/ /\ endpoint = "transform"
          /\ \/ operation \in {"expand", "compress"} /\ params \in TransformParams
             \/ operation = "rephrase" /\ params \in RephraseParams
          /\ content \in {SingleContent, FragmentContent}
       \/ /\ endpoint = "compress_text"
          /\ operation = "compress"
          /\ params \in CompressParams
          /\ content \in {SingleContent, FragmentContent, EmptyContent, NoContent}
    /\ pc = "received"
    /\ error = None
    /\ warnings = <<>>
    /\ transform = NoTransform
    /\ gatewayCalls = 0
    /\ response = NoResponse
    /\ result = NoResult
    /\ baseCompletion = NoBaseCompletion
    /\ auth = NoAuth
    /\ planning = NoPlanning
    /\ tracking = NoTracking
    /\ chunking = NoChunking

Finish(r) ==
    /\ pc' = "done"
    /\ result' = r

\* rephrase.py lines 24-30: the Validator runs on the raw request; its error is
\* raised and answered by the handler's "except Exception" (lines 95-104)
Validate ==
    /\ endpoint = "transform"
    /\ pc = "received"
    /\ error' = ValidateRequest(params)
    /\ warnings' = ValidationWarnings(params)
    /\ IF ValidateRequest(params) # None
       THEN Finish(ErrorResult(500, "internal_server_error"))
       ELSE pc' = "validated" /\ UNCHANGED result
    /\ UNCHANGED besidesRequest
    /\ UNCHANGED <<endpoint, operation, content, params, transform, gatewayCalls, response>>

\* rephrase.py lines 33-39: a rephrase request keeps versions (default 1) only
\* of the planning parameters
FilteredParams(p, op) ==
    IF op = "rephrase"
    THEN [p EXCEPT !.target_percentage = None, !.target_percentages = None,
                   !.start_percentage = None, !.steps_percentage = None,
                   !.versions = Some(Get(p, "versions", 1)),
                   !.style = Some(Get(p, "style", "professional")), !.unknown = <<>>]
    ELSE p

\* TransformationRequest.__init__, _init_rephrase and _init_transform: raised is
\* 500 for the KeyError of the Planner, 400 for the APIRequestError of
\* _validate_percentages, 0 when the request is built
NewTransformationRequest(p, op) ==
    IF op = "rephrase"
    THEN [raised |-> 0, params |-> Some(p), is_expansion |-> FALSE,
          target_percentages |-> InitRephrase(p)]
    ELSE LET is_expansion == ShouldExpand(p, op)
             calc == CalculateTargetPercentages(p, is_expansion)
         IN [raised |-> IF calc.raised THEN 500
                        ELSE IF ValidatePercentages(calc.plan) THEN 400 ELSE 0,
             params |-> Some(p), is_expansion |-> is_expansion,
             target_percentages |-> calc.plan]

\* rephrase.py lines 41-47, with the request's operation
CreateTransform ==
    /\ endpoint = "transform"
    /\ pc = "validated"
    /\ LET t == NewTransformationRequest(FilteredParams(params, operation), operation)
       IN IF t.raised = 500
          THEN Finish(ErrorResult(500, "internal_server_error")) /\ UNCHANGED transform
          ELSE IF t.raised = 400
          THEN Finish(ErrorResult(400, "rephrase_error")) /\ UNCHANGED transform
          ELSE /\ transform' = [params |-> t.params, is_expansion |-> t.is_expansion,
                                target_percentages |-> t.target_percentages]
               /\ pc' = "transformed"
               /\ UNCHANGED result
    /\ UNCHANGED besidesRequest
    /\ UNCHANGED <<endpoint, operation, content, params, error, warnings, gatewayCalls,
                   response>>

\* rephrase.py lines 53-57: the Completion Gateway is called
GetCompletion ==
    /\ endpoint = "transform"
    /\ pc = "transformed"
    /\ gatewayCalls' = gatewayCalls + 1
    /\ response' \in Completions(content, transform.target_percentages)
    /\ pc' = "completed"
    /\ UNCHANGED besidesRequest
    /\ UNCHANGED <<endpoint, operation, content, params, error, warnings, transform, result>>

\* rephrase.py lines 59-75 and 77-85: what the handler answers to a completion
Reconciled(resp, c, t, op, validation_warnings) ==
    IF resp.error THEN ErrorResult(500, "ai_error")
    ELSE LET parsed == TR_ParseAiResponse(resp, c, t.params[1], t.target_percentages, op)
         IN IF parsed.raised THEN ErrorResult(400, "rephrase_error")
            ELSE FormatResponse(parsed.response, t.params[1], c, op, validation_warnings)

Reconcile ==
    /\ endpoint = "transform"
    /\ pc = "completed"
    /\ Finish(Reconciled(response, content, transform, operation, warnings))
    /\ UNCHANGED besidesRequest
    /\ UNCHANGED <<endpoint, operation, content, params, error, warnings, transform,
                   gatewayCalls, response>>

\* compress.py lines 122-138: no Validator; the content check and the percentages.
\* pc = "hung" when calculate_percentages does not return.
CompressPlan ==
    /\ endpoint = "compress_text"
    /\ pc = "received"
    /\ IF content.texts = <<>> \/ (~content.is_fragments /\ content.texts[1] = <<>>)
       THEN Finish(ErrorResult(400, "missing_field")) /\ UNCHANGED transform
       ELSE LET calc == CompressCalculatePercentages(params)
            IN IF calc.diverges
               THEN pc' = "hung" /\ UNCHANGED <<transform, result>>
               ELSE /\ transform' = [params |-> Some(params), is_expansion |-> FALSE,
                                     target_percentages |-> calc.percentages]
                    /\ pc' = "transformed"
                    /\ UNCHANGED result
    /\ UNCHANGED besidesRequest
    /\ UNCHANGED <<endpoint, operation, content, params, error, warnings, gatewayCalls,
                   response>>

\* compress.py lines 140-270: the answer to a completion
Compressed(resp, c, target_percentages) ==
    LET parsed == ParseAiResponse(resp)
    IN IF parsed.error THEN ErrorResult(500, "ai_error")
       ELSE IF c.is_fragments
       THEN CompressFragments(parsed.versions, c, target_percentages)
       ELSE CompressSingle(parsed.versions, c, target_percentages)

\* compress.py lines 140-270: create_completion calls the Completion Gateway, and
\* the completion is parsed and answered
CompressComplete ==
    /\ endpoint = "compress_text"
    /\ pc = "transformed"
    /\ gatewayCalls' = gatewayCalls + 1
    /\ response' \in CompressCompletions(content, Len(transform.target_percentages))
    /\ Finish(Compressed(response', content, transform.target_percentages))
    /\ UNCHANGED besidesRequest
    /\ UNCHANGED <<endpoint, operation, content, params, error, warnings, transform>>

Next ==
    \/ Validate
    \/ CreateTransform
    \/ GetCompletion
    \/ Reconcile
    \/ CompressPlan
    \/ CompressComplete

Spec == Init /\ [][Next]_vars

-----------------------------------------------------------------------------
(* A call of create_base_completion on its own *)

\* no request is being handled
NoRequest ==
    /\ endpoint = "none" /\ operation = "none" /\ content = NoContent
    /\ params = [target_percentage |-> None, target_percentages |-> None,
                 start_percentage |-> None, steps_percentage |-> None,
                 versions |-> None, style |-> None, unknown |-> <<>>]
    /\ pc = "none" /\ error = None /\ warnings = <<>> /\ transform = NoTransform
    /\ gatewayCalls = 0 /\ response = NoResponse /\ result = NoResult

\* create_base_completion is called: retry_delay = initial_retry_delay (line 184)
BaseCompletionInit ==
    /\ \E n \in 0..MaxRetries, d \in 1..MaxDelay, g \in [1..MaxRetries -> GatewayOutcomes] :
          baseCompletion = [max_retries |-> n, initial_retry_delay |-> d, gateway |-> g,
                            attempt |-> 0, retry_delay |-> d, slept |-> <<>>,
                            calls |-> 0, ended |-> "running", status |-> 0]
    /\ NoRequest
    /\ auth = NoAuth
    /\ planning = NoPlanning
    /\ tracking = NoTracking
    /\ chunking = NoChunking

\* lines 185-227, one round of "for attempt in range(max_retries)": the gateway
\* is called and either returns (line 201) or raises
Attempt ==
    /\ baseCompletion.ended = "running"
    /\ baseCompletion.attempt < baseCompletion.max_retries
    /\ LET called == [baseCompletion EXCEPT !.calls = @ + 1]
           outcome == baseCompletion.gateway[baseCompletion.calls + 1]
       IN baseCompletion' = IF outcome = "ok"
                            THEN [called EXCEPT !.ended = "returned"]
                            ELSE HandleException(called, outcome)
    /\ UNCHANGED besidesBaseCompletion

\* the loop ends without a return or a raise: the function returns None
FallThrough ==
    /\ baseCompletion.ended = "running"
    /\ baseCompletion.attempt >= baseCompletion.max_retries
    /\ baseCompletion' = [baseCompletion EXCEPT !.ended = "returned_none"]
    /\ UNCHANGED besidesBaseCompletion

BaseCompletionNext == Attempt \/ FallThrough

BaseCompletionSpec == BaseCompletionInit /\ [][BaseCompletionNext]_vars

-----------------------------------------------------------------------------
(* Properties *)

\* the request passed the Request Validator
Validated == endpoint = "transform" /\ pc # "received" /\ error = None

\* the request passed the Request Validator and the Planner has run on it
Planned == Validated /\ pc # "validated"

\* an expand or compress request of the validator, planner, reconciler chain
IsTransform == endpoint = "transform" /\ operation \in {"expand", "compress"}

\* only target_percentage, optionally versions
SingleTargetRequest(p) ==
    /\ Has(p, "target_percentage")
    /\ ~Has(p, "target_percentages")
    /\ ~Has(p, "steps_percentage")
    /\ ~Has(p, "start_percentage")

\* C1: for every validated single-target request the Planner's plan is exactly
\* one entry, at the requested target_percentage, with versions_per_length =
\* min(versions, MAX_VERSIONS), versions defaulting to 1
C1_SingleTargetPlan ==
    (IsTransform /\ Planned /\ SingleTargetRequest(params))
        => transform.target_percentages =
              <<LengthTarget(params.target_percentage[1],
                             Min(Get(params, "versions", 1), MAX_VERSIONS))>>

\* a single-target request for two versions has been planned
C1_Witness ==
    /\ IsTransform /\ Planned /\ SingleTargetRequest(params)
    /\ params.target_percentage = Some(40)
    /\ params.versions = Some(2)
    /\ pc = "transformed"
    /\ transform.target_percentages = <<LengthTarget(40, 2)>>

\* compress from 80 down to 40 in steps of 10
IsC2Request(p) ==
    /\ p.start_percentage = Some(80)
    /\ p.target_percentage = Some(40)
    /\ p.steps_percentage = Some(10)
    /\ ~Has(p, "target_percentages")

\* C2: for a compression request with start_percentage = 80, target_percentage
\* = 40 and steps_percentage = 10 the Planner returns the percentages 80, 70,
\* 60, 50, 40 in this order, none of them 100; the Formatter's targets and
\* calculate_percentages of completion_helpers give the same list
C2_StepRange ==
    (IsTransform /\ operation = "compress" /\ Planned /\ IsC2Request(params))
        => /\ Percentages(transform.target_percentages) = <<80, 70, 60, 50, 40>>
           /\ \A i \in DOMAIN transform.target_percentages :
                 transform.target_percentages[i].target_percentage # 100
           /\ GetTargetPercentages(params, operation) =
                 [raised |-> FALSE, percentages |-> <<80, 70, 60, 50, 40>>]
           /\ CalculatePercentagesOutcomes(params, FALSE) = {Returned(<<80, 70, 60, 50, 40>>)}

\* the request of C2, with two versions per length, has got its five lengths
C2_Witness ==
    /\ IsTransform /\ operation = "compress" /\ Planned /\ IsC2Request(params)
    /\ params.versions = Some(2)
    /\ pc = "transformed"
    /\ Len(transform.target_percentages) = 5
    /\ transform.target_percentages[5] = LengthTarget(40, 2)

\* C3: for every expand or compress request that passes the Request Validator
\* the plan is non-empty and every target percentage in it is above 100 when
\* the plan is an expansion and strictly between 0 and 100 when it is a compression
C3_PlanInRange ==
    (IsTransform /\ Planned)
        => /\ transform.params # None
           /\ transform.target_percentages # <<>>
           /\ \A i \in DOMAIN transform.target_percentages :
                 LET pct == transform.target_percentages[i].target_percentage
                 IN IF transform.is_expansion THEN pct > 100 ELSE 0 < pct /\ pct < 100

\* the request got an answer from the Completion Gateway and was reconciled
Reconciliation == endpoint = "transform" /\ pc = "done" /\ gatewayCalls = 1

\* the reconciled result is a success
Succeeded == result.status = 200 /\ result.code = None

\* C4: after reconciliation of an expand or compress request every length of
\* every content item holds exactly versions_per_length versions of its plan target
C4_VersionCounts ==
    (IsTransform /\ Reconciliation /\ Succeeded)
        => \A i \in DOMAIN result.fragments :
              \A j \in DOMAIN result.fragments[i].lengths[1] :
                 j <= Len(transform.target_percentages)
                    => Len(result.fragments[i].lengths[1][j].versions[1]) =
                          transform.target_percentages[j].versions_per_length

\* the completion's fragments array is one element short of the content
OneFragmentShort ==
    /\ content.is_fragments
    /\ ~response.error
    /\ response.fragments # None
    /\ Len(response.fragments[1]) = Len(content.texts) - 1

\* C5: when the completion's fragments array is one element short, the result
\* is a success, every version of the missing fragment is the original text of
\* that fragment, and a warning of the result names the missing fragment's index
C5_MissingFragment ==
    (Reconciliation /\ OneFragmentShort)
        => LET m == Len(content.texts)
           IN /\ Succeeded
              /\ Len(result.fragments) = m
              /\ \A j \in DOMAIN result.fragments[m].lengths[1] :
                    \A k \in DOMAIN result.fragments[m].lengths[1][j].versions[1] :
                       result.fragments[m].lengths[1][j].versions[1][k].text =
                          Some(content.texts[m])
              /\ \E w \in DOMAIN result.warnings :
                    /\ result.warnings[w].code # "validation_warning"
                    /\ result.warnings[w].key # <<>>
                    /\ result.warnings[w].key[1] = m - 1

\* the lengths a completion delivers for each content item
Delivered(resp, c) ==
    IF c.is_fragments
    THEN [i \in DOMAIN resp.fragments[1] |-> resp.fragments[1][i].lengths[1]]
    ELSE <<resp.lengths[1]>>

\* the completion has a valid shape: fragments (or lengths, for a single text),
\* lengths in every fragment, versions in every length, text in every version
WellShaped(resp, c) ==
    /\ ~resp.error
    /\ IF c.is_fragments
       THEN /\ resp.fragments # None
            /\ \A i \in DOMAIN resp.fragments[1] : resp.fragments[1][i].lengths # None
       ELSE resp.lengths # None
    /\ \A i \in DOMAIN Delivered(resp, c) :
          \A j \in DOMAIN Delivered(resp, c)[i] :
             /\ Delivered(resp, c)[i][j].versions # None
             /\ \A k \in DOMAIN Delivered(resp, c)[i][j].versions[1] :
                   Delivered(resp, c)[i][j].versions[1][k].text # None

\* fewer fragments, fewer lengths or fewer versions than the plan expects
Fewer(resp, c, plan) ==
    \/ Len(Delivered(resp, c)) < Len(c.texts)
    \/ \E i \in DOMAIN Delivered(resp, c) :
          \/ Len(Delivered(resp, c)[i]) < Len(plan)
          \/ \E j \in DOMAIN Delivered(resp, c)[i] :
                /\ j <= Len(plan)
                /\ Len(Delivered(resp, c)[i][j].versions[1]) < plan[j].versions_per_length

\* no delivered text is so far from a target that _validate_version refuses it
NoneRefused(resp, c, plan, op) ==
    \A i \in DOMAIN Delivered(resp, c) :
       \A j \in DOMAIN Delivered(resp, c)[i] :
          \A k \in DOMAIN Delivered(resp, c)[i][j].versions[1] :
             \A t \in DOMAIN plan :
                i <= Len(c.texts) =>
                   ~ValidateVersionRaises(Delivered(resp, c)[i][j].versions[1][k],
                                          c.texts[i], plan[t].target_percentage, op)

\* C6: a completion of valid shape that delivers fewer fragments, lengths or
\* versions than the plan expects never makes the request fail, for single
\* texts as for fragments
C6_CountMismatchRecovered ==
    (/\ Reconciliation
     /\ WellShaped(response, content)
     /\ Fewer(response, content, transform.target_percentages)
     /\ NoneRefused(response, content, transform.target_percentages, operation))
        => Succeeded

\* a version, a length, a fragment and a completion without the final_tokens,
\* final_percentage and target_tokens the completion embeds
StripVersion(v) == [v EXCEPT !.final_tokens = None, !.final_percentage = None]

StripVersions(vs) == IF vs = None THEN None ELSE Some([k \in DOMAIN vs[1] |-> StripVersion(vs[1][k])])

StripLength(l) == [l EXCEPT !.target_tokens = None, !.versions = StripVersions(l.versions)]

StripLengths(ls) == IF ls = None THEN None ELSE Some([j \in DOMAIN ls[1] |-> StripLength(ls[1][j])])

StripFragment(f) ==
    [f EXCEPT !.lengths = StripLengths(f.lengths), !.versions = StripVersions(f.versions)]

Stripped(resp) ==
    [resp EXCEPT !.fragments = IF resp.fragments = None THEN None
                               ELSE Some([i \in DOMAIN resp.fragments[1] |->
                                            StripFragment(resp.fragments[1][i])]),
                 !.lengths = StripLengths(resp.lengths),
                 !.versions = StripVersions(resp.versions)]

\* all versions of a result with the content item they belong to
ResultVersions ==
    UNION {LET f == result.fragments[i]
           IN IF f.lengths # None
              THEN UNION {{[item |-> i, version |-> f.lengths[1][j].versions[1][k]] :
                              k \in DOMAIN f.lengths[1][j].versions[1]} :
                          j \in DOMAIN f.lengths[1]}
              ELSE {[item |-> i, version |-> f.versions[1][k]] : k \in DOMAIN f.versions[1]} :
           i \in DOMAIN result.fragments}

\* C7: completions that differ only in the embedded final_tokens,
\* final_percentage or target_tokens are reconciled to the same result: every
\* returned version's final_tokens is the token count of its text and its
\* final_percentage is final_tokens / original_tokens * 100 of its content item
C7_EmbeddedValuesIgnored ==
    (pc = "done" /\ gatewayCalls = 1)
        => /\ result = IF endpoint = "transform"
                       THEN Reconciled(Stripped(response), content, transform, operation,
                                       warnings)
                       ELSE Compressed(Stripped(response), content,
                                       transform.target_percentages)
           /\ Succeeded =>
                 \A rv \in ResultVersions :
                    LET n == count_tokens(rv.version.text[1])
                        original_tokens == count_tokens(content.texts[rv.item])
                    IN /\ rv.version.final_tokens = Some(n)
                       /\ rv.version.final_percentage =
                             IF endpoint = "transform"
                             THEN Some(FinalPercentage(n, original_tokens))
                             ELSE Some(<<n * 100, original_tokens>>)

\* the completion is fully compliant with the plan: the expected number of
\* fragments, one length per target, versions_per_length versions per length,
\* every text within the tolerance of its target
Compliant(resp, c, plan) ==
    /\ WellShaped(resp, c)
    /\ Len(Delivered(resp, c)) = Len(c.texts)
    /\ \A i \in DOMAIN Delivered(resp, c) :
          /\ Len(Delivered(resp, c)[i]) = Len(plan)
          /\ \A j \in DOMAIN Delivered(resp, c)[i] :
                LET versions == Delivered(resp, c)[i][j].versions[1]
                IN /\ Len(versions) = plan[j].versions_per_length
                   /\ plan[j].target_percentage > 0
                   /\ \A k \in DOMAIN versions :
                         ~Deviates(FinalPercentage(count_tokens(versions[k].text[1]),
                                                   count_tokens(c.texts[i])),
                                   plan[j].target_percentage)

\* C8: reconciling a fully compliant completion for a request without
\* validation warnings yields a result with no warnings at all
C8_CompliantNoWarnings ==
    (/\ IsTransform /\ Reconciliation
     /\ warnings = <<>>
     /\ Compliant(response, content, transform.target_percentages))
        => Succeeded /\ result.warnings = <<>>

\* C9: the Request Validator returns an error for every request whose
\* target_percentage is exactly 100, compress or expand, whatever else it carries
C9_HundredRejected ==
    (endpoint = "transform" /\ pc # "received" /\ params.target_percentage = Some(100))
        => /\ error # None
           /\ ValidateRequest(params) # None
           /\ gatewayCalls = 0

\* an expand request for 100 percent, with a start and a step that are in
\* range, has been refused
C9_Witness ==
    /\ IsTransform /\ operation = "expand"
    /\ params.target_percentage = Some(100)
    /\ params.start_percentage = Some(80)
    /\ params.steps_percentage = Some(10)
    /\ ~Has(params, "target_percentages")
    /\ pc = "done"
    /\ error = Some("invalid_compression")

\* C10: a request carrying both target_percentage and target_percentages is
\* rejected by the Validator with invalid_params and ends without the
\* Completion Gateway ever having been called for it
C10_BothTargetsRejected ==
    (Has(params, "target_percentage") /\ Has(params, "target_percentages"))
        => /\ gatewayCalls = 0
           /\ pc \in {"done", "hung"} => error = Some("invalid_params")

\* the Planner has built the plan of an expand or compress request that passed
\* the Request Validator
PlanBuilt == IsTransform /\ Planned /\ transform.params # None

\* C11: for every validated expand or compress request the target percentages
\* the Reconciler aligns the response lengths against
\* (ResponseFormatter._get_target_percentages) are, element for element, the
\* target percentages of the plan the Planner built for the same parameters
\* and operation
C11_ReconcilerExpectsPlan ==
    PlanBuilt =>
        LET expected == GetTargetPercentages(transform.params[1], operation)
        IN /\ ~expected.raised
           /\ expected.percentages = Percentages(transform.target_percentages)

\* a request the compress endpoint has to refuse: a target above 100, a negative
\* step, more versions than MAX_VERSIONS, an empty content or no content
InvalidCompressInput ==
    \/ Has(params, "target_percentage") /\ params.target_percentage[1] > 100
    \/ Has(params, "steps_percentage") /\ params.steps_percentage[1] < 0
    \/ Has(params, "versions") /\ params.versions[1] > MAX_VERSIONS
    \/ content \in {EmptyContent, NoContent}

\* C12: the compress endpoint answers every such request with HTTP 400 and an
\* error body, and returns no transformation
C12_InvalidCompressRejected ==
    (endpoint = "compress_text" /\ InvalidCompressInput) =>
        /\ pc # "hung"
        /\ pc = "done" => /\ result.status = 400
                          /\ result.code # None
                          /\ result.fragments = <<>>

\* a compress request with start_percentage s, target_percentage t < s and
\* versions n >= 2, without steps_percentage
IsStaggeredByVersions(p) ==
    /\ Has(p, "start_percentage") /\ Has(p, "target_percentage") /\ Has(p, "versions")
    /\ ~Has(p, "steps_percentage")
    /\ p.start_percentage[1] > p.target_percentage[1]
    /\ p.versions[1] >= 2

\* round(s - i * (s - t) / (n - 1)) for i = 0..n-1
EvenlySpaced(s, t, n) ==
    [k \in 1..n |-> PyRound(s * (n - 1) - (k - 1) * (s - t), n - 1)]

\* C13: the target_percentages reported in the metadata of a successful compress
\* response to such a request are the n evenly spaced values from s down to t
C13_EvenlySpacedReported ==
    (/\ endpoint = "compress_text"
     /\ IsStaggeredByVersions(params)
     /\ pc = "done"
     /\ result.status = 200) =>
        result.target_percentages =
            EvenlySpaced(params.start_percentage[1], params.target_percentage[1],
                         params.versions[1])

\* a compress request for a list of fragments with a fixed target and versions = n
IsFixedFragmentsRequest ==
    /\ endpoint = "compress_text"
    /\ content.is_fragments
    /\ Has(params, "versions")
    /\ ~Has(params, "steps_percentage") /\ ~Has(params, "start_percentage")

\* C14: every successful compress response for a content list of k fragments
\* with a fixed target_percentage and versions = n holds exactly k fragments,
\* and each fragment holds exactly n versions, each with a text and a
\* final_percentage
C14_FragmentsShape ==
    (IsFixedFragmentsRequest /\ pc = "done" /\ result.status = 200) =>
        /\ Len(result.fragments) = Len(content.texts)
        /\ \A i \in DOMAIN result.fragments :
              /\ result.fragments[i].versions # None
              /\ Len(result.fragments[i].versions[1]) = params.versions[1]
              /\ \A j \in DOMAIN result.fragments[i].versions[1] :
                    /\ result.fragments[i].versions[1][j].text # None
                    /\ result.fragments[i].versions[1][j].final_percentage # None

\* a target_percentage that is out of range for the operation of the request
TargetOutOfRange(p, op) ==
    /\ Has(p, "target_percentage")
    /\ LET target == p.target_percentage[1]
       IN \/ /\ op = "expand"
             /\ \/ target <= DEFAULT_PERCENTAGE
                \/ target < MIN_LENGTH_EXPANSION
                \/ target > MAX_LENGTH_EXPANSION
          \/ /\ op = "compress"
             /\ \/ target >= DEFAULT_PERCENTAGE
                \/ target < MIN_LENGTH_COMPRESSION
                \/ target > MAX_LENGTH_COMPRESSION

\* C15: the Request Validator rejects every expand request whose
\* target_percentage is at most 100 or outside [110, 300], and every compress
\* request whose target_percentage is at least 100 or outside [10, 90]
C15_OutOfRangeRejected ==
    (IsTransform /\ pc # "received" /\ TargetOutOfRange(params, operation)) =>
        error # None

\* the request without its unknown parameters
KnownOnly(p) == [p EXCEPT !.unknown = <<>>]

\* the warnings that name parameter n
WarningsNaming(ws, n) ==
    {i \in DOMAIN ws : ws[i].code = "validation_warning" /\ ws[i].key = <<n>>}

\* C16: parameters with names outside the known set never change the
\* Validator's error outcome, which is the one of the request without them,
\* and the returned warnings are exactly one warning per unknown parameter
C16_UnknownParamsWarnOnly ==
    (endpoint = "transform" /\ pc # "received") =>
        /\ error = ValidateRequest(KnownOnly(params))
        /\ Len(warnings) = Len(params.unknown)
        /\ \A i \in DOMAIN params.unknown :
              Cardinality(WarningsNaming(warnings, params.unknown[i])) = 1

\* a request with two unknown parameters is accepted with two warnings
C16_Witness ==
    /\ endpoint = "transform"
    /\ pc = "validated"
    /\ Len(params.unknown) = 2
    /\ error = None
    /\ Len(warnings) = 2

\* the completion delivers what the plan counts on: every fragment, one length
\* per target, versions_per_length versions per length, each with a text
FullCounts(resp, c, plan) ==
    /\ WellShaped(resp, c)
    /\ Len(Delivered(resp, c)) = Len(c.texts)
    /\ \A i \in DOMAIN Delivered(resp, c) :
          /\ Len(Delivered(resp, c)[i]) = Len(plan)
          /\ \A j \in DOMAIN Delivered(resp, c)[i] :
                Len(Delivered(resp, c)[i][j].versions[1]) = plan[j].versions_per_length

\* a delivered version whose realized percentage is outside the tolerance of
\* its target
SomeDeviation(resp, c, plan) ==
    \E i \in DOMAIN Delivered(resp, c) :
       \E j \in DOMAIN Delivered(resp, c)[i] :
          \E k \in DOMAIN Delivered(resp, c)[i][j].versions[1] :
             Deviates(FinalPercentage(
                         count_tokens(Delivered(resp, c)[i][j].versions[1][k].text[1]),
                         count_tokens(c.texts[i])),
                      plan[j].target_percentage)

\* C17: a delivered version that deviates from its target by more than the
\* tolerance produces a warning in the result and the request still succeeds,
\* for single texts as for fragments, whatever the size of the deviation
C17_DeviationWarnsOnly ==
    (/\ IsTransform /\ Reconciliation
     /\ FullCounts(response, content, transform.target_percentages)
     /\ SomeDeviation(response, content, transform.target_percentages))
        => /\ Succeeded
           /\ \E w \in DOMAIN result.warnings :
                 result.warnings[w].code = "target_deviation"

\* the request ended after a completion with a top-level 'error' key
AnsweredErrorCompletion == pc = "done" /\ gatewayCalls = 1 /\ response.error

\* C18: whenever the parsed completion has a top-level 'error' key the request
\* ends in a failure and returns no version text of that completion, whatever
\* other top-level keys the completion carries
C18_ErrorKeyPropagates ==
    AnsweredErrorCompletion => result.status # 200 /\ result.fragments = <<>>

\* a transient provider error: a server error or a rate limit
Transient == {"InternalServerError", "RateLimitError"}

\* the status create_base_completion gives up with after a transient error
GiveUpStatus(outcome) == IF outcome = "InternalServerError" THEN 503 ELSE 429

\* the call of create_base_completion has ended after calling the gateway
CallEnded == baseCompletion.ended \notin {"idle", "running"} /\ baseCompletion.calls > 0

\* C19: create_base_completion calls the gateway at most max_retries times; a
\* success returns at once; every attempt before the last one made failed
\* transiently and was followed by a wait, the waits doubling from
\* initial_retry_delay; a transient failure ends the call only on the last of
\* max_retries attempts, with an APIRequestError of status 503 (server error)
\* or 429 (rate limit); any other error ends it at once with an APIRequestError
C19_BoundedRetries ==
    /\ baseCompletion.calls <= baseCompletion.max_retries
    /\ CallEnded =>
          LET b == baseCompletion
              last == b.gateway[b.calls]
          IN /\ \A k \in 1..(b.calls - 1) : b.gateway[k] \in Transient
             /\ b.slept = [k \in 1..(b.calls - 1) |-> b.initial_retry_delay * 2^(k - 1)]
             /\ last = "ok" => b.ended = "returned"
             /\ last \in Transient =>
                   /\ b.calls = b.max_retries
                   /\ b.ended = "APIRequestError"
                   /\ b.status = GiveUpStatus(last)
             /\ last = "other" => b.ended = "APIRequestError"

-----------------------------------------------------------------------------
(* A request at require_api_key *)

AuthInit ==
    /\ \E h \in Headers, ks \in ApiKeySets :
          auth = [header |-> h, api_keys |-> ks, status |-> 0, code |-> "arrived",
                  handler_ran |-> FALSE]
    /\ NoRequest
    /\ baseCompletion = NoBaseCompletion
    /\ planning = NoPlanning
    /\ tracking = NoTracking
    /\ chunking = NoChunking

\* the decorated endpoint is called with the request
RequireApiKey ==
    /\ auth.code = "arrived"
    /\ auth' = DecoratedFunction(auth)
    /\ UNCHANGED besidesAuth

AuthNext == RequireApiKey

AuthSpec == AuthInit /\ [][AuthNext]_vars

\* the Authorization header is 'Bearer <key>' with <key> in the allow-list
Authorized(a) ==
    /\ a.header # None
    /\ Len(a.header[1]) = 2
    /\ Lower(a.header[1][1]) = "bearer"
    /\ a.header[1][2] \in a.api_keys

\* C20: a request reaches the endpoint handler only if its Authorization
\* header is 'Bearer <key>' with <key> in the configured allow-list of API
\* keys; every other request is answered 401 without the handler running
C20_OnlyListedKeysPass ==
    auth.code \notin {"none", "arrived"} =>
        /\ auth.handler_ran => Authorized(auth)
        /\ ~Authorized(auth) => auth.status = 401 /\ ~auth.handler_ran

-----------------------------------------------------------------------------
(* Properties of the Planner's plan *)

\* the request carries an explicit list of target percentages
IsExplicitList(p) == Has(p, "target_percentages")

\* C21: when target_percentages is given the plan has one entry per listed
\* value, in the given order, each with versions_per_length = 1 whatever
\* versions, start_percentage and steps_percentage say, and for expand and
\* compress the listed values equal to 100 are not in the plan
C21_ExplicitListPlan ==
    (PlanBuilt /\ IsExplicitList(transform.params[1])) =>
        /\ Percentages(transform.target_percentages) =
              Without(transform.params[1].target_percentages[1], 100)
        /\ \A i \in DOMAIN transform.target_percentages :
              transform.target_percentages[i].versions_per_length = 1

\* steps_percentage given, no explicit list
IsStepDriven(p) == Has(p, "steps_percentage") /\ ~IsExplicitList(p)

\* the start of a step-driven plan: the explicit start_percentage, else one step
\* from 100 toward the target, and no further than the target
ExpectedStart(p, is_expansion) ==
    LET step == p.steps_percentage[1]
        target == p.target_percentage[1]
    IN IF Has(p, "start_percentage") THEN p.start_percentage[1]
       ELSE IF is_expansion THEN Min(100 + step, target)
       ELSE Max(100 - step, target)

\* C22: for every validated step-driven request the plan's first stop is the
\* start, its last stop is exactly target_percentage, no stop lies beyond
\* target_percentage and no stop equals 100
C22_StepDrivenPlan ==
    (PlanBuilt /\ IsStepDriven(transform.params[1])) =>
        LET p == transform.params[1]
            stops == Percentages(transform.target_percentages)
        IN /\ stops # <<>>
           /\ stops[1] = ExpectedStart(p, transform.is_expansion)
           /\ stops[Len(stops)] = p.target_percentage[1]
           /\ \A i \in DOMAIN stops :
                 /\ IF transform.is_expansion
                    THEN stops[i] <= p.target_percentage[1]
                    ELSE stops[i] >= p.target_percentage[1]
                 /\ stops[i] # 100

\* start_percentage and target_percentage (two different positive values)
\* without steps_percentage and without an explicit list
IsStartTarget(p) ==
    /\ Has(p, "start_percentage") /\ Has(p, "target_percentage")
    /\ p.start_percentage[1] > 0 /\ p.target_percentage[1] > 0
    /\ p.start_percentage[1] # p.target_percentage[1]
    /\ ~Has(p, "steps_percentage") /\ ~IsExplicitList(p)

\* C24: for start_percentage and target_percentage without steps_percentage the
\* Planner returns a progression with an inferred step and not a single-target
\* plan: more than one stop, the first at start_percentage and the last at
\* target_percentage
C24_StartTargetProgression ==
    (PlanBuilt /\ IsStartTarget(transform.params[1])) =>
        LET p == transform.params[1]
            stops == Percentages(transform.target_percentages)
        IN /\ Len(stops) > 1
           /\ stops[1] = p.start_percentage[1]
           /\ stops[Len(stops)] = p.target_percentage[1]

\* the placeholder parse_ai_response builds for the last fragment of the content
PlaceholderOfLast ==
    TR_CreatePlaceholderFragment(content.texts[Len(content.texts)], transform.params[1],
                                 transform.target_percentages)

\* one length per target of the plan, at the plan's percentages in the plan's
\* order, each holding versions_per_length copies of the text
FollowsPlan(fragment, plan, text) ==
    /\ fragment.lengths # None
    /\ Len(fragment.lengths[1]) = Len(plan)
    /\ \A j \in DOMAIN plan :
          LET l == fragment.lengths[1][j]
          IN /\ l.target_percentage = Some(plan[j].target_percentage)
             /\ l.versions # None
             /\ Len(l.versions[1]) = plan[j].versions_per_length
             /\ \A k \in DOMAIN l.versions[1] : l.versions[1][k].text = Some(text)

\* C26: the placeholder built for a fragment missing from the completion of an
\* expand or compress request has exactly one length per target of the
\* request's plan, with the plan's percentages in the plan's order, and each
\* length holds that target's versions_per_length copies of the original text
C26_PlaceholderFollowsPlan ==
    (IsTransform /\ Reconciliation /\ OneFragmentShort) =>
        FollowsPlan(PlaceholderOfLast, transform.target_percentages,
                    content.texts[Len(content.texts)])

\* the compress controller answered a fragment request with a transformation
CompressedFragments ==
    /\ endpoint = "compress_text" /\ content.is_fragments
    /\ pc = "done" /\ result.status = 200
    /\ response.fragments # None

\* the completion delivered a version with this text inside its i-th fragment
DeliveredIn(resp, i, text) ==
    /\ i <= Len(resp.fragments[1])
    /\ resp.fragments[1][i].versions # None
    /\ \E k \in DOMAIN resp.fragments[1][i].versions[1] :
          resp.fragments[1][i].versions[1][k].text = text

\* C27: in a compress response for a fragment request every version listed
\* under output fragment i is a version the completion delivered inside its
\* i-th fragment
C27_VersionsOfOwnFragment ==
    CompressedFragments =>
        \A i \in DOMAIN result.fragments :
            \A j \in DOMAIN result.fragments[i].versions[1] :
                DeliveredIn(response, i, result.fragments[i].versions[1][j].text)

-----------------------------------------------------------------------------
(* A call of calculate_percentages by one of its callers *)

\* the request's planning parameters have arrived at the caller
PlanningInit ==
    /\ \E c \in {"expand_text", "create_completion", "compress_text"},
          d \in PlanningData, e \in BOOLEAN :
          /\ c = "expand_text" => e
          /\ c = "compress_text" => ~e
          /\ planning = [caller |-> c, data |-> d, is_expansion |-> e,
                         outcome |-> "called", percentages |-> <<>>]
    /\ NoRequest
    /\ baseCompletion = NoBaseCompletion
    /\ auth = NoAuth
    /\ tracking = NoTracking
    /\ chunking = NoChunking

\* expand.py lines 117-131: calculate_percentages(versioning_params, is_expansion=True)
ExpandCalculatePercentages ==
    /\ planning.caller = "expand_text"
    /\ planning.outcome = "called"
    /\ \E r \in CalculatePercentagesOutcomes(VersioningParams(planning.data), TRUE) :
          planning' = Ended(planning, r)
    /\ UNCHANGED besidesPlanning

\* completion_helpers.py lines 425-427: calculate_percentages(data, is_expansion)
\* with the is_expansion of data
CreateCompletionCalculatePercentages ==
    /\ planning.caller = "create_completion"
    /\ planning.outcome = "called"
    /\ \E r \in CalculatePercentagesOutcomes(planning.data, planning.is_expansion) :
          planning' = Ended(planning, r)
    /\ UNCHANGED besidesPlanning

\* compress.py line 138: calculate_percentages(data) of the compress controller
CompressCalculatePercentagesCall ==
    /\ planning.caller = "compress_text"
    /\ planning.outcome = "called"
    /\ planning' = Ended(planning, CompressCalculatePercentages(planning.data))
    /\ UNCHANGED besidesPlanning

PlanningNext ==
    \/ ExpandCalculatePercentages
    \/ CreateCompletionCalculatePercentages
    \/ CompressCalculatePercentagesCall

PlanningSpec == PlanningInit /\ [][PlanningNext]_vars


-----------------------------------------------------------------------------
(* Properties of calculate_percentages *)

\* the data calculate_percentages of completion_helpers.py was called with
PlanningArgs(pl) ==
    IF pl.caller = "expand_text" THEN VersioningParams(pl.data) ELSE pl.data

\* the direction calculate_percentages was called with
PlanningIsExpansion(pl) == pl.caller = "expand_text" \/ pl.is_expansion

\* calculate_percentages of completion_helpers.py has been called and is over
HelperCallOver ==
    /\ planning.caller \in {"expand_text", "create_completion"}
    /\ planning.outcome \in {"returned", "raised", "hung"}

\* start_percentage, target_percentage, steps_percentage and versions are all
\* given, and |target - start| / step differs from versions by more than 0.1
OverSpecified(d) ==
    /\ Has(d, "start_percentage") /\ d.start_percentage[1] > 0
    /\ Has(d, "target_percentage") /\ d.target_percentage[1] > 0
    /\ Has(d, "steps_percentage") /\ d.steps_percentage[1] > 0
    /\ Has(d, "versions") /\ d.versions[1] > 0
    /\ 10 * Abs(Abs(d.target_percentage[1] - d.start_percentage[1])
                - d.versions[1] * d.steps_percentage[1]) > d.steps_percentage[1]

\* start + step * i (expansion) or start - step * i (compression), i = 0..versions-1
StartVersionsStep(d, is_expansion) ==
    [k \in 1..d.versions[1] |->
        IF is_expansion
        THEN d.start_percentage[1] + d.steps_percentage[1] * (k - 1)
        ELSE d.start_percentage[1] - d.steps_percentage[1] * (k - 1)]

\* C23: for over-specified, inconsistent parameters calculate_percentages
\* returns exactly the versions values start + step * i (expansion) or
\* start - step * i (compression), whatever target_percentage is
C23_PrefersStartVersionsStep ==
    (HelperCallOver /\ OverSpecified(PlanningArgs(planning))) =>
        /\ planning.outcome = "returned"
        /\ planning.percentages =
              StartVersionsStep(PlanningArgs(planning), PlanningIsExpansion(planning))


\* ascending for expansion, descending for compression
Monotonic(s, is_expansion) ==
    \A i \in 1..(Len(s) - 1) :
        IF is_expansion THEN s[i] <= s[i + 1] ELSE s[i] >= s[i + 1]

\* C25: the percentages a calculate_percentages returns to the expand or the
\* compress endpoint, when they hold more than one distinct value, are
\* ascending for expansion and descending for compression
C25_MonotonicPercentages ==
    (/\ planning.outcome = "returned"
     /\ Cardinality({planning.percentages[i] : i \in DOMAIN planning.percentages}) > 1)
        => Monotonic(planning.percentages, PlanningIsExpansion(planning))


\* C29: every call of a calculate_percentages by the expand or the compress
\* endpoint comes back, and it comes back with a list: it neither runs on for
\* ever nor raises, also for a steps_percentage of zero or below and a start on
\* the wrong side of the target
C29_PlanningTerminates == planning.outcome \notin {"hung", "raised"}


-----------------------------------------------------------------------------
(* Calls of get_param and mark_param_processed on a TransformationRequest *)

\* from_flask_request and __post_init__: the request is constructed with a
\* non-empty content and the default operation; _processed_params is empty
TrackingInit ==
    /\ \E c \in {SingleContent, FragmentContent}, d \in ParamDicts :
          tracking = [content |-> c, params |-> d, processed_params |-> <<>>,
                      called |-> "constructed", key |-> "none", value |-> None]
    /\ NoRequest
    /\ baseCompletion = NoBaseCompletion
    /\ auth = NoAuth
    /\ planning = NoPlanning
    /\ chunking = NoChunking

\* get_param(key, default), transformation.py lines 26-30
GetParam ==
    /\ tracking.called # "none"
    /\ \E k \in ParamNames \cup {AbsentName}, default \in {None, Some("professional")} :
          tracking' = [MarkParamProcessed(tracking, k) EXCEPT
                          !.called = "get_param", !.key = k,
                          !.value = DictGet(tracking.params, k, default)]
    /\ UNCHANGED besidesTracking

\* mark_param_processed(param), transformation.py lines 32-35
MarkProcessed ==
    /\ tracking.called # "none"
    /\ \E k \in ParamNames \cup {AbsentName} :
          tracking' = [MarkParamProcessed(tracking, k) EXCEPT
                          !.called = "mark_param_processed", !.key = k, !.value = None]
    /\ UNCHANGED besidesTracking

TrackingNext == GetParam \/ MarkProcessed

TrackingSpec == TrackingInit /\ [][TrackingNext]_vars

\* s is an initial part of t
IsPrefix(s, t) == Len(s) <= Len(t) /\ \A i \in DOMAIN s : s[i] = t[i]

\* no duplicates in _processed_params, only keys of params in it, and
\* unprocessed_params lists exactly the keys of params that are not in it
TrackingConsistent ==
    LET t == tracking
    IN /\ \A i, j \in DOMAIN t.processed_params :
             t.processed_params[i] = t.processed_params[j] => i = j
       /\ Elements(t.processed_params) \subseteq Elements(DictKeys(t.params))
       /\ Elements(UnprocessedParams(t)) =
             Elements(DictKeys(t.params)) \ Elements(t.processed_params)
       /\ Len(UnprocessedParams(t)) + Len(t.processed_params) = Len(t.params)

\* a call keeps every entry of _processed_params and leaves content and params alone
TrackingStep ==
    /\ IsPrefix(tracking.processed_params, tracking'.processed_params)
    /\ tracking'.content = tracking.content
    /\ tracking'.params = tracking.params

\* C28: for any sequence of get_param and mark_param_processed calls the
\* processed-parameter list has no duplicates and only keys present in params,
\* never loses an entry, unprocessed_params is exactly the params keys not yet
\* in it, and content and params are left unchanged
C28_ProcessedParamsTracked == []TrackingConsistent /\ [][TrackingStep]_vars

\* get_param was called for a parameter listed before another one: the second
\* request for it added nothing, and one parameter is still unprocessed
C28_Witness ==
    /\ tracking.called = "get_param"
    /\ tracking.key = "style"
    /\ tracking.value = Some("elaborate")
    /\ tracking.processed_params = <<"style", "versions">>
    /\ UnprocessedParams(tracking) = <<"tone">>

(* A call of chunk_text *)

ChunkInit ==
    /\ NoRequest
    /\ baseCompletion = NoBaseCompletion
    /\ auth = NoAuth
    /\ planning = NoPlanning
    /\ tracking = NoTracking
    /\ \E text \in Texts, chunk_size \in 1..MaxChunkSize :
          \E overlap \in 0..(chunk_size - 1) :
             chunking = [text |-> text, chunk_size |-> chunk_size, overlap |-> overlap,
                         start |-> 0, chunks |-> <<>>, ended |-> "running"]

\* one round of the loop: the chunk from start to its end is appended and
\* start moves to end - overlap
ChunkIterate ==
    /\ chunking.ended = "running"
    /\ chunking.start < Len(chunking.text)
    /\ Len(chunking.chunks) < MaxChunks
    /\ LET c == chunking
           end == ChunkEnd(c.text, c.start, c.chunk_size)
       IN chunking' =
             IF ~InRange(c.text, end)
             THEN [c EXCEPT !.ended = "raised"]
             ELSE [c EXCEPT !.chunks = Append(c.chunks, StripSpaces(PySlice(c.text, c.start, end))),
                            !.start = end - c.overlap]
    /\ UNCHANGED besidesChunking

\* the loop is over (or the text was empty): the chunks are returned
ChunkReturn ==
    /\ chunking.ended = "running"
    /\ chunking.start >= Len(chunking.text)
    /\ chunking' = [chunking EXCEPT !.ended = "returned"]
    /\ UNCHANGED besidesChunking

ChunkNext == ChunkIterate \/ ChunkReturn

ChunkSpec == ChunkInit /\ [][ChunkNext]_vars

(* Properties of chunk_text *)

\* the characters of the text that are not spaces, and those some chunk holds
NonSpaceCharacters(text) == {text[i] : i \in DOMAIN text} \ {Space}

Covered(chunks) == UNION {{chunks[k][i] : i \in DOMAIN chunks[k]} : k \in DOMAIN chunks}

\* start never falls below zero, no round raises, and the returned chunks hold
\* every non-space character of the text
ChunkingSound ==
    /\ chunking.start >= 0
    /\ chunking.ended # "raised"
    /\ chunking.ended = "returned" =>
          NonSpaceCharacters(chunking.text) \subseteq Covered(chunking.chunks)

\* a round of the loop moves start forward
StartIncreases == chunking'.start > chunking.start \/ chunking'.chunks = chunking.chunks

\* C30: chunk_text terminates for every text and every chunk_size > overlap >= 0:
\* start strictly increases from one round of the loop to the next and never
\* falls below zero, also when the chunk is cut short at a space close to its
\* start, and the returned chunks cover every non-space character of the text
C30_ChunkTextTerminates == []ChunkingSound /\ [][StartIncreases]_vars

=============================================================================
